---- MODULE Spec2Model ----
(***************************************************************************)
(* Ticket relay and moderation state machine of the support bot            *)
(* (src/main.py): user directory (DatabaseManager over the local SQLite    *)
(* store), Guard filter (GuardMiddleware), ticket router (init_ticket,     *)
(* process_cancel, the two gateways), moderation commands (adm_warn,       *)
(* adm_ban, adm_unban) and the broadcast loop (confirm_broadcast).         *)
(*                                                                         *)
(* Handlers are coroutines run as concurrent tasks by the dispatcher; they *)
(* interleave at their awaits.  A user-side handler is modelled as a task  *)
(* whose steps are the segments between the awaits that touch the store or *)
(* the transport.  A staff command is one step: the choice of the outcome  *)
(* of each of its sends decides how far the handler body runs.             *)
(*                                                                         *)
(* Not modelled: the columns created_at and last_seen, message contents,   *)
(* keyboards, the statistics and export handlers, the remote mirror (every *)
(* mirror call is wrapped in try/except and writes no local state).        *)
(***************************************************************************)
EXTENDS Integers, Sequences, FiniteSets, TLC

\* ---------------------------------------------------------------- bounds
MaxUsers == 2        \* user ids 1..MaxUsers
MaxThread == 2       \* forum topics the transport can create: 1..MaxThread
MaxTime == 3         \* the clock runs from 1 to MaxTime
MaxTasks == 2        \* user-side handlers in flight at once
MaxWarns == 4        \* warns a user can collect
MaxMsgs == 1         \* relayed messages counted per user
MaxAnon == 2         \* distinct values random.choices can produce
MaxRuns == 1         \* broadcast runs
MaxRetryAfter == 1   \* seconds a RetryAfter error asks to wait

Uids == 1..MaxUsers
ThreadIds == 1..MaxThread
Slots == 1..MaxTasks
AnonIds == 1..MaxAnon

\* SQL NULL / Python None for integer columns; ids and times start at 1
NULL == 0
\* SQL NULL for the text column ban_reason
NoReason == "NULL"
\* Python None returned by parse_time
None == -1

\* ------------------------------------------------------------- constants
WARN_LIMIT == 3
OWNER_ID == 1         \* the configured owner; every other id is not the owner

\* ------------------------------------------------------------- variables
VARIABLES
    users,          \* table users: uid -> row
    referrals,      \* table referrals: set of <<referrer_id, referred_id>>
    warns_history,  \* table warns_history: uid -> number of rows
    fsm,            \* MemoryStorage: uid -> FSM state of the private chat
    now,            \* datetime.now()
    tasks,          \* user-side handlers in flight, in the order they started
    next_topic,     \* the id the transport gives to the next new forum topic
    topic_owner,    \* thread id -> uid the topic was created for (0: none)
    notice_tried,   \* threads into which a closure notice send was made
    notice_sent,    \* threads into which a closure notice was delivered
    kb_shown,       \* uid -> a category keyboard has been sent to the chat
    admin_kb,       \* the admin keyboard has been sent to the owner
    bc,             \* the broadcast run of confirm_broadcast
    broadcast_messages  \* table broadcast_messages: sequence of rows

dbvars == <<users, referrals, warns_history>>
transport == <<next_topic, topic_owner, notice_tried, notice_sent, kb_shown>>
bcvars == <<admin_kb, bc, broadcast_messages>>
vars == <<users, referrals, warns_history, fsm, now, tasks,
          next_topic, topic_owner, notice_tried, notice_sent, kb_shown,
          admin_kb, bc, broadcast_messages>>

\* --------------------------------------------------------- the users table
NoRow ==
    [ exists |-> FALSE, anon_id |-> 0, topic_id |-> NULL, referrer_id |-> NULL,
      warns |-> 0, is_banned |-> FALSE, ban_until |-> NULL,
      ban_reason |-> NoReason, is_active |-> TRUE, msg_count |-> 0 ]

\* INSERT INTO users (user_id, anon_id, referrer_id, ...): column defaults
NewRow(aid, rid) ==
    [ NoRow EXCEPT !.exists = TRUE, !.anon_id = aid, !.referrer_id = rid ]

\* anon_id TEXT UNIQUE: the INSERT raises when another row holds aid
AnonTaken(U, aid) == \E v \in Uids : U[v].exists /\ U[v].anon_id = aid

\* a topic_id column without the UNIQUE constraint
TopicNeverTaken(U, uid, tid) == FALSE

\* topic_id INTEGER UNIQUE: an UPDATE raises when another row holds tid
TopicTaken(U, uid, tid) ==
    \E v \in Uids : v # uid /\ U[v].exists /\ U[v].topic_id = tid

\* DatabaseManager.register, the branch taken when the row is missing and
\* the INSERT succeeds; an existing row only has last_seen updated
register(U, uid, rid, aid) ==
    IF U[uid].exists THEN U ELSE [U EXCEPT ![uid] = NewRow(aid, rid)]

\* INSERT OR IGNORE INTO referrals, made only for a new row and `if rid`
register_referrals(U, R, uid, rid) ==
    IF ~U[uid].exists /\ rid # NULL THEN R \cup {<<rid, uid>>} ELSE R

\* DatabaseManager.get_user(tid=...): the uid of the row, 0 for None
get_user_tid(U, tid) ==
    IF tid # 0 /\ \E v \in Uids : U[v].exists /\ U[v].topic_id = tid
    THEN CHOOSE v \in Uids : U[v].exists /\ U[v].topic_id = tid
    ELSE 0

\* DatabaseManager.close_ticket
close_ticket(U, uid) ==
    IF U[uid].exists THEN [U EXCEPT ![uid].topic_id = NULL] ELSE U

\* UPDATE users SET topic_id = ? WHERE user_id = ? (init_ticket)
set_topic(U, uid, tid) ==
    IF U[uid].exists THEN [U EXCEPT ![uid].topic_id = tid] ELSE U

\* an update_user_ban whose unban also clears the warns
update_user_ban_clears_warns(U, uid, banned, until, reason) ==
    IF U[uid].exists
    THEN [U EXCEPT ![uid].is_banned = banned, ![uid].ban_until = until,
                   ![uid].ban_reason = reason,
                   ![uid].warns = IF banned THEN @ ELSE 0]
    ELSE U

\* an update_user_ban whose unban also sets is_active
update_user_ban_reactivates(U, uid, banned, until, reason) ==
    IF U[uid].exists
    THEN [U EXCEPT ![uid].is_banned = banned, ![uid].ban_until = until,
                   ![uid].ban_reason = reason,
                   ![uid].is_active = IF banned THEN @ ELSE TRUE]
    ELSE U

\* an update_user_ban whose unban writes the flag only
update_user_ban_flag_only(U, uid, banned, until, reason) ==
    IF U[uid].exists
    THEN [U EXCEPT ![uid].is_banned = banned,
                   ![uid].ban_until = IF banned THEN until ELSE @,
                   ![uid].ban_reason = IF banned THEN reason ELSE @]
    ELSE U

\* DatabaseManager.update_user_ban
update_user_ban(U, uid, banned, until, reason) ==
    IF U[uid].exists
    THEN [U EXCEPT ![uid].is_banned = banned, ![uid].ban_until = until,
                   ![uid].ban_reason = reason]
    ELSE U

\* DatabaseManager.add_warn: UPDATE users SET warns = warns + 1
add_warn(U, uid) ==
    IF U[uid].exists THEN [U EXCEPT ![uid].warns = @ + 1] ELSE U

\* the value `warns + 1` of add_warn's UPDATE starts from: the column as it
\* is when the statement runs, not the row `seen` by an earlier get_user
WarnBaseStale(U, uid, seen) == seen

WarnBase(U, uid, seen) == U[uid].warns

\* add_warn with each statement committed on its own: a failure after the
\* UPDATE leaves the counter raised without its warns_history row
add_warn_autocommit(U, H, uid, seen, committed) ==
    [ users |-> [U EXCEPT ![uid].warns = WarnBase(U, uid, seen) + 1],
      warns_history |-> IF committed THEN [H EXCEPT ![uid] = @ + 1] ELSE H ]

\* DatabaseManager.add_warn as the one transaction it is: the UPDATE and the
\* INSERT INTO warns_history are visible after db.commit(); when a
\* statement raises before it, the connection closes and neither is
add_warn_tx(U, H, uid, seen, committed) ==
    IF committed
    THEN [ users |-> [U EXCEPT ![uid].warns = WarnBase(U, uid, seen) + 1],
           warns_history |-> [H EXCEPT ![uid] = @ + 1] ]
    ELSE [ users |-> U, warns_history |-> H ]

\* DatabaseManager.increment_message_count
increment_message_count(U, uid) ==
    IF U[uid].exists THEN [U EXCEPT ![uid].msg_count = @ + 1] ELSE U

\* an UPDATE users SET is_active = 0 without its WHERE clause
mark_inactive_all(U, uid) == [v \in DOMAIN U |-> [U[v] EXCEPT !.is_active = FALSE]]

\* UPDATE users SET is_active = 0 WHERE user_id = ?
mark_inactive(U, uid) ==
    IF U[uid].exists THEN [U EXCEPT ![uid].is_active = FALSE] ELSE U

\* a SELECT user_id FROM users without `AND is_banned = 0`
get_all_active_users_banned_too(U) == {v \in Uids : U[v].exists /\ U[v].is_active}

\* DatabaseManager.get_all_active_users
get_all_active_users(U) ==
    {v \in Uids : U[v].exists /\ U[v].is_active /\ ~U[v].is_banned}

\* ------------------------------------------------------------- parse_time
\* A command token is a sequence of characters; a Cyrillic letter is written
\* "c_x" so that it differs from the Latin unit letters.
PermToken == <<"c_p", "c_e", "c_r", "c_m", "c_a", "c_n", "c_e", "c_n", "c_t", "c_n", "c_o">>

DigitValue ==
    [c \in {"0", "1", "2", "3", "4", "5", "6", "7", "8", "9"} |->
        CASE c = "0" -> 0 [] c = "1" -> 1 [] c = "2" -> 2 [] c = "3" -> 3
          [] c = "4" -> 4 [] c = "5" -> 5 [] c = "6" -> 6 [] c = "7" -> 7
          [] c = "8" -> 8 [] c = "9" -> 9]

multipliers == [d |-> 86400, h |-> 3600, m |-> 60, s |-> 1]

\* str.lower() on the characters the tokens use
lower_char(c) ==
    CASE c = "D" -> "d" [] c = "H" -> "h" [] c = "M" -> "m" [] c = "S" -> "s"
      [] OTHER -> c

lower(str) == [i \in 1..Len(str) |-> lower_char(str[i])]

\* the for loop of parse_time: num is the value of the digit string read so
\* far and has_num tells whether that string is non-empty
RECURSIVE parse_loop(_, _, _, _, _)
parse_loop(str, i, total_seconds, num, has_num) ==
    IF i > Len(str) THEN total_seconds
    ELSE IF str[i] \in DOMAIN DigitValue
         THEN parse_loop(str, i + 1, total_seconds,
                         10 * num + DigitValue[str[i]], TRUE)
    ELSE IF str[i] \in DOMAIN multipliers
         THEN IF has_num
              THEN parse_loop(str, i + 1,
                              total_seconds + num * multipliers[str[i]], 0, FALSE)
              ELSE parse_loop(str, i + 1, total_seconds, num, has_num)
    ELSE None

\* parse_time: None, or the seconds of the timedelta
parse_time(time_str) ==
    IF lower(time_str) = PermToken THEN None
    ELSE parse_loop(lower(time_str), 1, 0, 0, FALSE)

\* ------------------------------------------------------------------ state
FsmStates == {"none", "choosing_category", "writing_issue", "rev_adm",
              "broadcasting", "broadcast_confirm"}

NewTask ==
    [ pc |-> "new", uid |-> 0, kind |-> "none", ref |-> NULL,
      is_new |-> FALSE,                   \* the Guard's register made the row
      banned |-> FALSE, until |-> NULL,   \* the row as read by the Guard
      topic |-> NULL,                     \* topic_id as read by the handler
      tid |-> NULL,                       \* topic.message_thread_id
      in_force |-> FALSE,                 \* a ban was in force at dispatch
      w_count |-> 0,                      \* warns of the row read, then the
                                          \* count add_warn returned
      lifted |-> FALSE,                   \* the Guard lifted an elapsed ban
      hours |-> 0, minutes |-> 0,         \* the time left in the ban notice
      actor |-> 0,                        \* message.from_user.id of a command
      has_args |-> FALSE,                 \* the command has its arguments
      time_str |-> <<>>,                  \* parts[0] of a /ban
      reply |-> "none",                   \* the answer sent into the thread
      copy |-> "none",                    \* the outcome of the relay's copy
      reaction |-> "none" ]               \* the emoji handed to the transport

IdleRun ==
    [ pc |-> "idle", admin |-> 0, user_ids |-> <<>>,
      index |-> 0,         \* the position enumerate() yields next
      success |-> 0, failed |-> 0,
      delivered |-> 0,     \* copies that reached their recipient
      retry_of |-> 0,      \* the position whose send raised RetryAfter
      wake |-> 0 ]         \* the time asyncio.sleep(retry_after) ends

\* the tasks left when the handler at position s returns or raises
Finished(T, s) == [i \in 1..(Len(T) - 1) |-> IF i < s THEN T[i] ELSE T[i + 1]]

\* is_banned with ban_until absent or not behind t (the Guard's test)
BanInForce(banned, until, t) == banned /\ (until = NULL \/ ~(until < t))

Init ==
    /\ users = [u \in Uids |-> NoRow]
    /\ referrals = {}
    /\ warns_history = [u \in Uids |-> 0]
    /\ fsm = [u \in Uids |-> "none"]
    /\ now = 1
    /\ tasks = <<>>
    /\ next_topic = 1
    /\ topic_owner = [t \in ThreadIds |-> 0]
    /\ notice_tried = {}
    /\ notice_sent = {}
    /\ kb_shown = [u \in Uids |-> FALSE]
    /\ admin_kb = FALSE
    /\ bc = IdleRun
    /\ broadcast_messages = <<>>

\* datetime.now() advances
Tick ==
    /\ now < MaxTime
    /\ now' = now + 1
    /\ UNCHANGED <<dbvars, fsm, tasks, transport, bcvars>>

\* ----------------------------------------------------- events that arrive
MessageKinds == {"start", "create", "cancel", "review", "text"}

\* the handler the filters select for a private message, in the order the
\* handlers are registered; "text" is a message that matches no command and
\* no menu button (the review dialogue after rev_adm is not modelled)
SelectedHandler(kind, state) ==
    CASE kind = "start" -> "start"
      [] kind = "create" -> "create"
      [] kind = "cancel" -> "cancel"
      [] kind = "review" -> "review"
      [] kind = "text" /\ state = "broadcasting" -> "bc_content"
      [] OTHER -> "u2a"

\* a private message of user u is dispatched: the filters select the
\* handler and dp.message runs the Guard around it.  The Guard up to its
\* verdict: register(event.from_user.id), whose INSERT of a new row raises
\* when the random anon_id is taken (the exception is then left to leave
\* the Guard), and get_user
PrivateMessage(u, kind, ref) ==
    /\ Len(tasks) < MaxTasks
    /\ kind = "start" \/ ref = NULL
    /\ kind = "text" => /\ fsm[u] # "rev_adm"
                        /\ users[u].msg_count < MaxMsgs
    /\ \E aid \in AnonIds :
         IF ~users[u].exists /\ AnonTaken(users, aid)
         THEN /\ users' = users
              /\ tasks' = Append(tasks,
                    [NewTask EXCEPT !.pc = "register_raised", !.uid = u,
                        !.kind = SelectedHandler(kind, fsm[u]), !.ref = ref])
         ELSE /\ users' = register(users, u, NULL, aid)
              /\ tasks' = Append(tasks,
                    [NewTask EXCEPT !.pc = "decide", !.uid = u,
                        !.kind = SelectedHandler(kind, fsm[u]), !.ref = ref,
                        !.is_new = ~users[u].exists,
                        !.banned = users'[u].is_banned,
                        !.until = users'[u].ban_until])
    /\ UNCHANGED <<referrals, warns_history, fsm, now, transport, bcvars>>

\* -------------------------------------------------------- GuardMiddleware
\* a Guard for which a ban without ban_until elapses like a timed one
GuardVerdictLiftsPermanent(banned, until, t) ==
    IF banned THEN (IF until < t THEN "lift" ELSE "reject") ELSE "pass"

\* a Guard that turns away every banned user, elapsed ban or not
GuardVerdictNoLift(banned, until, t) == IF banned THEN "reject" ELSE "pass"

\* the Guard's verdict on the row it read: "lift", "reject" or "pass"
GuardVerdict(banned, until, t) ==
    IF banned
    THEN IF until # NULL
         THEN IF until < t THEN "lift" ELSE "reject"
         ELSE "reject"
    ELSE "pass"

\* a minutes figure that is the whole of the time left
remaining_minutes_total(until, t) == (until - t) \div 60

\* hours = int(remaining.total_seconds() // 3600), with remaining =
\* ban_time - datetime.now(); the clock counts seconds and the two
\* datetime.now() of the branch read the same second
remaining_hours(until, t) == (until - t) \div 3600

\* minutes = int((remaining.total_seconds() % 3600) // 60)
remaining_minutes(until, t) == ((until - t) % 3600) \div 60

\* the Guard from its verdict on: update_user_ban for an elapsed ban, then
\* the handler; for a rejected event the figures of the notice are computed
\* and the notice to the user is left to send
GuardDecide(s) ==
    LET t == tasks[s]
        verdict == GuardVerdict(t.banned, t.until, now) IN
    /\ s \in DOMAIN tasks
    /\ t.pc = "decide"
    /\ users' = IF verdict = "lift"
                THEN update_user_ban(users, t.uid, FALSE, NULL, NoReason)
                ELSE users
    /\ tasks' = IF verdict = "reject"
                THEN [tasks EXCEPT ![s] =
                        [t EXCEPT !.pc = "rejected",
                            !.hours = IF t.until # NULL
                                      THEN remaining_hours(t.until, now) ELSE 0,
                            !.minutes = IF t.until # NULL
                                        THEN remaining_minutes(t.until, now) ELSE 0]]
                ELSE [tasks EXCEPT ![s] =
                        [t EXCEPT !.pc = t.kind,
                                  !.banned = FALSE, !.until = NULL,
                                  !.in_force = BanInForce(t.banned, t.until, now),
                                  !.lifted = (verdict = "lift")]]
    /\ UNCHANGED <<referrals, warns_history, fsm, now, transport, bcvars>>

\* the IntegrityError of register's INSERT leaves the Guard: the handler is
\* not called and the event is dropped
guard_register_raised(s) ==
    LET t == tasks[s] IN
    /\ s \in DOMAIN tasks
    /\ t.pc = "register_raised"
    /\ tasks' = Finished(tasks, s)
    /\ UNCHANGED <<dbvars, fsm, now, transport, bcvars>>

\* the Guard's event.answer of the ban notice, then return: the handler is
\* not called
guard_reject_notice(s) ==
    LET t == tasks[s] IN
    /\ s \in DOMAIN tasks
    /\ t.pc = "rejected"
    /\ tasks' = Finished(tasks, s)
    /\ UNCHANGED <<dbvars, fsm, now, transport, bcvars>>

\* ------------------------------------------------------ message handlers
\* cmd_start: state.clear(), register(uid, ref); the owner is sent the
\* admin keyboard
cmd_start(s) ==
    LET t == tasks[s] IN
    /\ s \in DOMAIN tasks
    /\ t.pc = "start"
    /\ fsm' = [fsm EXCEPT ![t.uid] = "none"]
    /\ \E aid \in AnonIds :
         IF ~users[t.uid].exists /\ AnonTaken(users, aid)
         THEN UNCHANGED <<users, referrals>>
         ELSE /\ users' = register(users, t.uid, t.ref, aid)
              /\ referrals' = register_referrals(users, referrals, t.uid, t.ref)
    /\ admin_kb' = (admin_kb \/ t.uid = OWNER_ID)
    /\ tasks' = Finished(tasks, s)
    /\ UNCHANGED <<warns_history, now, transport, bc, broadcast_messages>>

\* process_cat_selection: set_state(choosing_category), category keyboard
process_cat_selection(s) ==
    LET t == tasks[s] IN
    /\ s \in DOMAIN tasks
    /\ t.pc = "create"
    /\ fsm' = [fsm EXCEPT ![t.uid] = "choosing_category"]
    /\ kb_shown' = [kb_shown EXCEPT ![t.uid] = TRUE]
    /\ tasks' = Finished(tasks, s)
    /\ UNCHANGED <<dbvars, now, next_topic, topic_owner, notice_tried,
                   notice_sent, bcvars>>

\* process_rev_1: set_state(rev_adm)
process_rev_1(s) ==
    LET t == tasks[s] IN
    /\ s \in DOMAIN tasks
    /\ t.pc = "review"
    /\ fsm' = [fsm EXCEPT ![t.uid] = "rev_adm"]
    /\ tasks' = Finished(tasks, s)
    /\ UNCHANGED <<dbvars, now, transport, bcvars>>

\* process_cancel up to the closure notice: get_state, get_user; without a
\* notice to send it goes on to state.clear()
process_cancel(s) ==
    LET t == tasks[s] IN
    /\ s \in DOMAIN tasks
    /\ t.pc = "cancel"
    /\ IF /\ fsm[t.uid] \in {"writing_issue", "choosing_category"}
          /\ users[t.uid].exists
          /\ users[t.uid].topic_id # NULL
       THEN /\ tasks' = [tasks EXCEPT ![s] =
                    [t EXCEPT !.pc = "cancel_notice",
                              !.topic = users[t.uid].topic_id]]
            /\ UNCHANGED fsm
       ELSE /\ fsm' = [fsm EXCEPT ![t.uid] = "none"]
            /\ tasks' = Finished(tasks, s)
    /\ UNCHANGED <<dbvars, now, transport, bcvars>>

\* process_cancel: bot.send_message into the thread, an error is logged
process_cancel_notice(s) ==
    LET t == tasks[s] IN
    /\ s \in DOMAIN tasks
    /\ t.pc = "cancel_notice"
    /\ notice_tried' = notice_tried \cup {t.topic}
    /\ \E delivered \in BOOLEAN :
         notice_sent' = IF delivered THEN notice_sent \cup {t.topic}
                        ELSE notice_sent
    /\ tasks' = [tasks EXCEPT ![s] = [t EXCEPT !.pc = "cancel_close"]]
    /\ UNCHANGED <<dbvars, fsm, now, next_topic, topic_owner, kb_shown, bcvars>>

\* process_cancel: close_ticket, state.clear()
process_cancel_close(s) ==
    LET t == tasks[s] IN
    /\ s \in DOMAIN tasks
    /\ t.pc = "cancel_close"
    /\ users' = close_ticket(users, t.uid)
    /\ fsm' = [fsm EXCEPT ![t.uid] = "none"]
    /\ tasks' = Finished(tasks, s)
    /\ UNCHANGED <<referrals, warns_history, now, transport, bcvars>>

\* gateway_u2a up to the copy: get_state, get_user
gateway_u2a(s) ==
    LET t == tasks[s] IN
    /\ s \in DOMAIN tasks
    /\ t.pc = "u2a"
    /\ tasks' = IF /\ fsm[t.uid] = "writing_issue"
                   /\ users[t.uid].exists
                   /\ users[t.uid].topic_id # NULL
                THEN [tasks EXCEPT ![s] =
                        [t EXCEPT !.pc = "u2a_copy",
                                  !.topic = users[t.uid].topic_id]]
                ELSE Finished(tasks, s)
    /\ UNCHANGED <<dbvars, fsm, now, transport, bcvars>>

\* gateway_u2a: copy_message_to_admin returns the sent message or None,
\* increment_message_count after a copy
gateway_u2a_copy(s) ==
    LET t == tasks[s] IN
    /\ s \in DOMAIN tasks
    /\ t.pc = "u2a_copy"
    /\ \E copied \in BOOLEAN :
         users' = IF copied THEN increment_message_count(users, t.uid)
                  ELSE users
    /\ tasks' = Finished(tasks, s)
    /\ UNCHANGED <<referrals, warns_history, fsm, now, transport, bcvars>>

\* ------------------------------------- process_cat_callback / init_ticket
\* user u presses a button of a category keyboard: dp.callback_query has no
\* middleware, process_cat_callback runs at once.  init_ticket up to its
\* first send: get_user, a missing row returns None
CategoryCallback(u) ==
    /\ Len(tasks) < MaxTasks
    /\ kb_shown[u]
    /\ tasks' = Append(tasks,
            [NewTask EXCEPT
                !.uid = u, !.kind = "cat",
                !.in_force = BanInForce(users[u].is_banned, users[u].ban_until, now),
                !.topic = users[u].topic_id,
                !.pc = IF ~users[u].exists THEN "cat_failed"
                       ELSE IF users[u].topic_id # NULL THEN "cat_notice"
                       ELSE "cat_create"])
    /\ UNCHANGED <<dbvars, fsm, now, transport, bcvars>>

\* init_ticket: the closure notice into the thread that was read; an error
\* of the send is logged
init_ticket_notice(s) ==
    LET t == tasks[s] IN
    /\ s \in DOMAIN tasks
    /\ t.pc = "cat_notice"
    /\ notice_tried' = notice_tried \cup {t.topic}
    /\ \E delivered \in BOOLEAN :
         notice_sent' = IF delivered THEN notice_sent \cup {t.topic}
                        ELSE notice_sent
    /\ tasks' = [tasks EXCEPT ![s] = [t EXCEPT !.pc = "cat_close"]]
    /\ UNCHANGED <<dbvars, fsm, now, next_topic, topic_owner, kb_shown, bcvars>>

\* init_ticket: close_ticket(uid)
init_ticket_close(s) ==
    LET t == tasks[s] IN
    /\ s \in DOMAIN tasks
    /\ t.pc = "cat_close"
    /\ users' = close_ticket(users, t.uid)
    /\ tasks' = [tasks EXCEPT ![s] = [t EXCEPT !.pc = "cat_create"]]
    /\ UNCHANGED <<referrals, warns_history, fsm, now, transport, bcvars>>

\* the ids bot.create_forum_topic can hand back for user uid: the next new
\* topic of the group, or an id that the store maps to another user
CreatedTopicIds(U, uid, fresh) ==
    {tid \in ThreadIds :
        tid = fresh \/ \E v \in Uids \ {uid} : U[v].exists /\ U[v].topic_id = tid}

\* init_ticket: bot.create_forum_topic; an error returns None
init_ticket_create(s) ==
    LET t == tasks[s] IN
    /\ s \in DOMAIN tasks
    /\ t.pc = "cat_create"
    /\ \/ /\ tasks' = [tasks EXCEPT ![s] = [t EXCEPT !.pc = "cat_failed"]]
          /\ UNCHANGED <<next_topic, topic_owner>>
       \/ \E tid \in CreatedTopicIds(users, t.uid, next_topic) :
            /\ tasks' = [tasks EXCEPT ![s] =
                            [t EXCEPT !.pc = "cat_write", !.tid = tid]]
            /\ IF tid = next_topic
               THEN /\ next_topic' = next_topic + 1
                    /\ topic_owner' = [topic_owner EXCEPT ![tid] = t.uid]
               ELSE UNCHANGED <<next_topic, topic_owner>>
    /\ UNCHANGED <<dbvars, fsm, now, notice_tried, notice_sent, kb_shown, bcvars>>

\* init_ticket: UPDATE users SET topic_id; the UNIQUE constraint raises and
\* the except clause returns None
init_ticket_write(s) ==
    LET t == tasks[s] IN
    /\ s \in DOMAIN tasks
    /\ t.pc = "cat_write"
    /\ IF TopicTaken(users, t.uid, t.tid)
       THEN /\ tasks' = [tasks EXCEPT ![s] = [t EXCEPT !.pc = "cat_failed"]]
            /\ UNCHANGED users
       ELSE /\ users' = set_topic(users, t.uid, t.tid)
            /\ tasks' = [tasks EXCEPT ![s] = [t EXCEPT !.pc = "cat_card"]]
    /\ UNCHANGED <<referrals, warns_history, fsm, now, transport, bcvars>>

\* init_ticket: the ticket card.  Delivered, init_ticket returns the thread
\* id and process_cat_callback sets writing_issue; an error of the send
\* makes init_ticket return None
init_ticket_card(s) ==
    LET t == tasks[s] IN
    /\ s \in DOMAIN tasks
    /\ t.pc = "cat_card"
    /\ \/ /\ fsm' = [fsm EXCEPT ![t.uid] = "writing_issue"]
          /\ tasks' = Finished(tasks, s)
       \/ /\ tasks' = [tasks EXCEPT ![s] = [t EXCEPT !.pc = "cat_failed"]]
          /\ UNCHANGED fsm
    /\ UNCHANGED <<dbvars, now, transport, bcvars>>

\* process_cat_callback after init_ticket returned None: the user is told
\* to try again later
process_cat_callback_failed(s) ==
    LET t == tasks[s] IN
    /\ s \in DOMAIN tasks
    /\ t.pc = "cat_failed"
    /\ tasks' = Finished(tasks, s)
    /\ UNCHANGED <<dbvars, fsm, now, transport, bcvars>>

\* ---------------------------------------------------- moderation commands
\* the duration tokens a /ban is given in the model
BanTokens == { <<"1", "s">>, <<"s", "o", "o", "n">>, PermToken }

AUTO_BAN_REASON == "3 warns"      \* '3 предупреждения'
DEFAULT_BAN_REASON == "rules"     \* "Нарушение правил"
GivenReasons == {"spam"}          \* a reason typed by the owner

\* adm_warn, sent by actor in thread; has_args: the command has two words
\* after it; sends: how many of its sends succeed before one raises
\* (0: the notice to the thread raises, 1: the notice to the user raises,
\*  2: the threshold notice to the thread raises, 3: none of these)
adm_warn(actor, thread, has_args, sends) ==
    LET u == get_user_tid(users, thread)
        warned == add_warn(users, u)
        w_count == warned[u].warns IN
    /\ actor = OWNER_ID
    /\ has_args
    /\ u # 0
    /\ users[u].warns < MaxWarns
    /\ warns_history' = [warns_history EXCEPT ![u] = @ + 1]
    /\ users' = IF sends >= 2 /\ w_count >= WARN_LIMIT
                THEN update_user_ban(warned, u, TRUE, NULL, AUTO_BAN_REASON)
                ELSE warned
    /\ UNCHANGED <<referrals, fsm, now, tasks, transport, bcvars>>

\* adm_warn as the steps that interleave with other handlers.  The command
\* arrives: get_user(tid=...) reads the row
WarnCommand(actor, thread) ==
    LET u == get_user_tid(users, thread) IN
    /\ Len(tasks) < MaxTasks
    /\ actor = OWNER_ID
    /\ u # 0
    /\ tasks' = Append(tasks,
            [NewTask EXCEPT !.pc = "warn_tx", !.uid = u, !.kind = "warn",
                            !.topic = thread, !.w_count = users[u].warns])
    /\ UNCHANGED <<dbvars, fsm, now, transport, bcvars>>

\* adm_warn: await db_engine.add_warn(...); a transaction that fails raises
\* out of the handler
adm_warn_tx(s) ==
    LET t == tasks[s] IN
    /\ s \in DOMAIN tasks
    /\ t.pc = "warn_tx"
    /\ users[t.uid].warns < MaxWarns
    /\ \E committed \in BOOLEAN :
         LET tx == add_warn_tx(users, warns_history, t.uid, t.w_count, committed) IN
         /\ users' = tx.users
         /\ warns_history' = tx.warns_history
         /\ tasks' = IF committed
                     THEN [tasks EXCEPT ![s] =
                            [t EXCEPT !.pc = "warn_notify",
                                      !.w_count = tx.users[t.uid].warns]]
                     ELSE Finished(tasks, s)
    /\ UNCHANGED <<referrals, fsm, now, transport, bcvars>>

\* adm_warn after add_warn: the two notices, the threshold test, the ban
\* write and the threshold notice; sends as in adm_warn
adm_warn_notify(s, sends) ==
    LET t == tasks[s] IN
    /\ s \in DOMAIN tasks
    /\ t.pc = "warn_notify"
    /\ users' = IF sends >= 2 /\ t.w_count >= WARN_LIMIT
                THEN update_user_ban(users, t.uid, TRUE, NULL, AUTO_BAN_REASON)
                ELSE users
    /\ tasks' = Finished(tasks, s)
    /\ UNCHANGED <<referrals, warns_history, fsm, now, transport, bcvars>>

\* adm_ban, sent by actor in thread with duration token time_str and reason
\* (NoReason: no reason typed); the sends that follow the write change no
\* state
adm_ban(actor, thread, time_str, reason) ==
    LET u == get_user_tid(users, thread)
        ban_duration == parse_time(time_str)
        ban_until == IF ban_duration = None THEN NULL ELSE now + ban_duration IN
    /\ actor = OWNER_ID
    /\ u # 0
    /\ users' = update_user_ban(users, u, TRUE, ban_until,
                    IF reason = NoReason THEN DEFAULT_BAN_REASON ELSE reason)
    /\ UNCHANGED <<referrals, warns_history, fsm, now, tasks, transport, bcvars>>

\* adm_unban
adm_unban(actor, thread) ==
    LET u == get_user_tid(users, thread) IN
    /\ actor = OWNER_ID
    /\ u # 0
    /\ users' = update_user_ban(users, u, FALSE, NULL, NoReason)
    /\ UNCHANGED <<referrals, warns_history, fsm, now, tasks, transport, bcvars>>

\* the moderation commands as the steps of their handlers
ModCommands == {"warn", "ban", "unban"}

\* a message.from_user.id test that lets everybody through
AnyoneIsOwner(actor) == TRUE

\* if message.from_user.id != OWNER_ID: return
IsOwner(actor) == actor = OWNER_ID

\* a get_user(tid=...) that falls back to a user who has a thread
get_user_tid_any(U, tid) ==
    IF \E v \in Uids : U[v].exists /\ U[v].topic_id # NULL
    THEN CHOOSE v \in Uids : U[v].exists /\ U[v].topic_id # NULL
    ELSE 0

\* the get_user(tid=message.message_thread_id) of the three commands
CommandTarget(U, tid) == get_user_tid(U, tid)

\* a ban_until without datetime.now()
BanUntilDurationOnly(t, ban_duration) ==
    IF ban_duration = None THEN NULL ELSE ban_duration

\* adm_ban: ban_until = (datetime.now() + ban_duration).isoformat(), None
\* when parse_time returned None
BanUntil(t, ban_duration) ==
    IF ban_duration = None THEN NULL ELSE t + ban_duration

\* /warn, /ban or /unban of actor arrives in thread: the filters select
\* adm_warn, adm_ban or adm_unban, never gateway_a2u
StaffCommand(actor, thread, cmd, has_args, time_str) ==
    /\ Len(tasks) < MaxTasks
    /\ cmd \in ModCommands
    /\ tasks' = Append(tasks,
            [NewTask EXCEPT !.pc = "adm", !.kind = cmd, !.actor = actor,
                            !.topic = thread, !.has_args = has_args,
                            !.time_str = time_str])
    /\ UNCHANGED <<dbvars, fsm, now, transport, bcvars>>

\* the head of the three handlers: the owner test, the usage answer of
\* /warn and /ban, get_user(tid=...) and its "not found" answer
adm_lookup(s) ==
    LET t == tasks[s]
        u == CommandTarget(users, t.topic) IN
    /\ s \in DOMAIN tasks
    /\ t.pc = "adm"
    /\ tasks' =
          IF ~IsOwner(t.actor) THEN Finished(tasks, s)
          ELSE IF t.kind # "unban" /\ ~t.has_args
          THEN [tasks EXCEPT ![s] = [t EXCEPT !.pc = "adm_answer", !.reply = "usage"]]
          ELSE IF u = 0
          THEN [tasks EXCEPT ![s] = [t EXCEPT !.pc = "adm_answer", !.reply = "not_found"]]
          ELSE IF t.kind = "warn"
          THEN [tasks EXCEPT ![s] = [t EXCEPT !.pc = "warn_tx", !.uid = u,
                                               !.w_count = users[u].warns]]
          ELSE IF t.kind = "ban"
          THEN [tasks EXCEPT ![s] = [t EXCEPT !.pc = "ban_write", !.uid = u]]
          ELSE [tasks EXCEPT ![s] = [t EXCEPT !.pc = "unban_write", !.uid = u]]
    /\ UNCHANGED <<dbvars, fsm, now, transport, bcvars>>

\* message.answer of the usage text or of "not found" is sent or raises,
\* the handler is over
adm_answer(s) ==
    LET t == tasks[s] IN
    /\ s \in DOMAIN tasks
    /\ t.pc = "adm_answer"
    /\ tasks' = Finished(tasks, s)
    /\ UNCHANGED <<dbvars, fsm, now, transport, bcvars>>

\* adm_ban: parse_time, ban_until, update_user_ban (no reason typed)
adm_ban_write(s) ==
    LET t == tasks[s] IN
    /\ s \in DOMAIN tasks
    /\ t.pc = "ban_write"
    /\ users' = update_user_ban(users, t.uid, TRUE,
                    BanUntil(now, parse_time(t.time_str)), DEFAULT_BAN_REASON)
    /\ tasks' = [tasks EXCEPT ![s] = [t EXCEPT !.pc = "adm_notify"]]
    /\ UNCHANGED <<referrals, warns_history, fsm, now, transport, bcvars>>

\* adm_unban: update_user_ban(user_id, False, None, None)
adm_unban_write(s) ==
    LET t == tasks[s] IN
    /\ s \in DOMAIN tasks
    /\ t.pc = "unban_write"
    /\ users' = update_user_ban(users, t.uid, FALSE, NULL, NoReason)
    /\ tasks' = [tasks EXCEPT ![s] = [t EXCEPT !.pc = "adm_notify"]]
    /\ UNCHANGED <<referrals, warns_history, fsm, now, transport, bcvars>>

\* adm_ban and adm_unban after the write: the notice into the thread and
\* the notice to the user are sent, or one of them raises out of the
\* handler
adm_notify(s) ==
    LET t == tasks[s] IN
    /\ s \in DOMAIN tasks
    /\ t.pc = "adm_notify"
    /\ tasks' = Finished(tasks, s)
    /\ UNCHANGED <<dbvars, fsm, now, transport, bcvars>>

\* gateway_a2u: a staff message in thread; copy is the outcome of
\* copy_message_to_user
gateway_a2u(thread, copy) ==
    LET u == get_user_tid(users, thread) IN
    /\ u # 0
    /\ users' = IF copy = "forbidden" THEN mark_inactive(users, u) ELSE users
    /\ UNCHANGED <<referrals, warns_history, fsm, now, tasks, transport, bcvars>>

\* ------------------------------------------------------ delivery markers
\* the emoji of the source by name: check_mark and cross_mark are the two
\* the relays pass, thumbs_up and thumbs_down the two they are replaced by
CHECK_MARK == "check_mark"
CROSS_MARK == "cross_mark"

\* safe_set_reaction.supported_emojis, its first ten entries
supported_emojis ==
    {"thumbs_up", "thumbs_down", "heart", "fire", "smiling_hearts", "clap",
     "grin", "thinking", "exploding_head", "scream"}

\* a safe_set_reaction that hands every emoji on as it is given
safe_set_reaction_emoji_as_given(emoji) == emoji

\* safe_set_reaction: the emoji handed to bot.set_message_reaction
safe_set_reaction_emoji(emoji) ==
    IF emoji \in supported_emojis THEN emoji
    ELSE IF emoji \in {CHECK_MARK, "envelope", "bust"} THEN "thumbs_up"
    ELSE IF emoji \in {CROSS_MARK, "no_entry"} THEN "thumbs_down"
    ELSE "thumbs_up"

\* gateway_u2a from the copy to the marker: copy_message_to_admin returns
\* the sent message or None, increment_message_count after a copy, and the
\* emoji given to message.react
gateway_u2a_send(s) ==
    LET t == tasks[s] IN
    /\ s \in DOMAIN tasks
    /\ t.pc = "u2a_copy"
    /\ \E copied \in BOOLEAN :
         /\ users' = IF copied THEN increment_message_count(users, t.uid)
                     ELSE users
         /\ tasks' = [tasks EXCEPT ![s] =
                [t EXCEPT !.pc = "u2a_react",
                          !.copy = IF copied THEN "ok" ELSE "error",
                          !.reaction = IF copied THEN CHECK_MARK ELSE CROSS_MARK]]
    /\ UNCHANGED <<referrals, warns_history, fsm, now, transport, bcvars>>

\* gateway_u2a: message.react attaches the marker or raises, the bare except
\* passes, the handler returns
gateway_u2a_react(s) ==
    LET t == tasks[s] IN
    /\ s \in DOMAIN tasks
    /\ t.pc = "u2a_react"
    /\ tasks' = Finished(tasks, s)
    /\ UNCHANGED <<dbvars, fsm, now, transport, bcvars>>

\* gateway_a2u up to the copy: a staff message that is no command arrives
\* in thread, get_user(tid=...) finds the user
StaffMessage(thread) ==
    LET u == get_user_tid(users, thread) IN
    /\ Len(tasks) < MaxTasks
    /\ u # 0
    /\ tasks' = Append(tasks,
            [NewTask EXCEPT !.pc = "a2u_copy", !.uid = u, !.kind = "a2u",
                            !.topic = thread])
    /\ UNCHANGED <<dbvars, fsm, now, transport, bcvars>>

\* gateway_a2u: copy_message_to_user returns or raises, and the emoji
\* safe_set_reaction makes of the one the branch passes
gateway_a2u_send(s, copy) ==
    LET t == tasks[s] IN
    /\ s \in DOMAIN tasks
    /\ t.pc = "a2u_copy"
    /\ tasks' = [tasks EXCEPT ![s] =
            [t EXCEPT !.pc = "a2u_react", !.copy = copy,
                      !.reaction = safe_set_reaction_emoji(
                            IF copy = "ok" THEN CHECK_MARK ELSE CROSS_MARK)]]
    /\ UNCHANGED <<dbvars, fsm, now, transport, bcvars>>

\* gateway_a2u: safe_set_reaction returns True or False, the Forbidden
\* clause then runs its UPDATE, the handler returns
gateway_a2u_react(s) ==
    LET t == tasks[s] IN
    /\ s \in DOMAIN tasks
    /\ t.pc = "a2u_react"
    /\ users' = IF t.copy = "forbidden" THEN mark_inactive(users, t.uid)
                ELSE users
    /\ tasks' = Finished(tasks, s)
    /\ UNCHANGED <<referrals, warns_history, fsm, now, transport, bcvars>>

\* the get_user(tid=message.message_thread_id) of gateway_a2u
RelayTarget(U, tid) == get_user_tid(U, tid)

\* a staff message that is no command is posted in thread: the filters of
\* gateway_a2u select it, whether or not a user is mapped to the thread
StaffPost(thread) ==
    /\ Len(tasks) < MaxTasks
    /\ tasks' = Append(tasks,
            [NewTask EXCEPT !.pc = "a2u", !.kind = "a2u", !.topic = thread])
    /\ UNCHANGED <<dbvars, fsm, now, transport, bcvars>>

\* gateway_a2u: u = await get_user(tid=...); without a row the handler
\* returns, with one it goes on to copy_message_to_user(bot, u['user_id'])
gateway_a2u_lookup(s) ==
    LET t == tasks[s]
        u == RelayTarget(users, t.topic) IN
    /\ s \in DOMAIN tasks
    /\ t.pc = "a2u"
    /\ tasks' = IF u = 0 THEN Finished(tasks, s)
                ELSE [tasks EXCEPT ![s] = [t EXCEPT !.pc = "a2u_copy", !.uid = u]]
    /\ UNCHANGED <<dbvars, fsm, now, transport, bcvars>>

\* -------------------------------------------------------------- broadcast
PROGRESS_EVERY == 10
SendOutcomes == {"ok", "forbidden", "retry_after", "error"}

\* start_broadcast: the owner presses the broadcast button of the admin
\* keyboard
start_broadcast(actor) ==
    /\ admin_kb
    /\ actor = OWNER_ID
    /\ fsm' = [fsm EXCEPT ![actor] = "broadcasting"]
    /\ UNCHANGED <<dbvars, now, tasks, transport, bcvars>>

\* process_broadcast_content: the message to send is kept, confirmation asked
process_broadcast_content(s) ==
    LET t == tasks[s] IN
    /\ s \in DOMAIN tasks
    /\ t.pc = "bc_content"
    /\ fsm' = [fsm EXCEPT ![t.uid] = "broadcast_confirm"]
    /\ tasks' = Finished(tasks, s)
    /\ UNCHANGED <<dbvars, now, transport, bcvars>>

\* cancel_broadcast_callback
cancel_broadcast_callback(u) ==
    /\ fsm[u] = "broadcast_confirm"
    /\ fsm' = [fsm EXCEPT ![u] = "none"]
    /\ UNCHANGED <<dbvars, now, tasks, transport, bcvars>>

\* the rows of get_all_active_users in the order of the primary key
SnapshotSeq(S) == SelectSeq([i \in 1..MaxUsers |-> i], LAMBDA v : v \in S)

\* confirm_broadcast up to the loop: the snapshot and the counters
confirm_broadcast(u) ==
    /\ fsm[u] = "broadcast_confirm"
    /\ bc.pc \in {"idle", "done"}
    /\ Len(broadcast_messages) < MaxRuns
    /\ bc' = [IdleRun EXCEPT !.pc = "loop", !.admin = u, !.index = 1,
                  !.user_ids = SnapshotSeq(get_all_active_users(users))]
    /\ UNCHANGED <<dbvars, fsm, now, tasks, transport, admin_kb, broadcast_messages>>

\* a loop whose RetryAfter clause sends to the same recipient again after
\* the sleep; the last value of the clock stands for every later time
broadcast_step_retry_same(copy, progress, retry_after) ==
    LET user_id == bc.user_ids[bc.index]
        edits == copy = "ok" /\ bc.index % PROGRESS_EVERY = 0
        raised == IF edits THEN progress ELSE copy
        wake == IF now + retry_after <= MaxTime THEN now + retry_after ELSE MaxTime IN
    /\ bc.pc = "loop"
    /\ bc.index <= Len(bc.user_ids)
    /\ edits \/ progress = "ok"
    /\ (raised = "retry_after") = (retry_after > 0)
    /\ users' = IF raised = "forbidden" THEN mark_inactive(users, user_id)
                ELSE users
    /\ bc' = [bc EXCEPT
                !.index = IF raised = "retry_after" THEN @ ELSE @ + 1,
                !.success = IF copy = "ok" THEN @ + 1 ELSE @,
                !.delivered = IF copy = "ok" THEN @ + 1 ELSE @,
                !.failed = IF raised \in {"forbidden", "error"} THEN @ + 1 ELSE @,
                !.pc = IF raised = "retry_after" THEN "sleep" ELSE "loop",
                !.retry_of = IF raised = "retry_after" THEN bc.index ELSE 0,
                !.wake = IF raised = "retry_after" THEN wake ELSE 0]
    /\ UNCHANGED <<referrals, warns_history, fsm, now, tasks, transport,
                   admin_kb, broadcast_messages>>

\* one iteration of the for loop of confirm_broadcast; copy is the outcome
\* of copy_message_to_user, progress the outcome of progress_msg.edit_text
\* when index % 10 == 0.  `index -= 1` in the RetryAfter clause rebinds a
\* name that enumerate() sets again: the loop goes on to the next user.
broadcast_step(copy, progress, retry_after) ==
    LET user_id == bc.user_ids[bc.index]
        edits == copy = "ok" /\ bc.index % PROGRESS_EVERY = 0
        raised == IF edits THEN progress ELSE copy IN
    /\ bc.pc = "loop"
    /\ bc.index <= Len(bc.user_ids)
    /\ edits \/ progress = "ok"
    /\ (raised = "retry_after") = (retry_after > 0)
    /\ now + retry_after <= MaxTime
    /\ users' = IF raised = "forbidden" THEN mark_inactive(users, user_id)
                ELSE users
    /\ bc' = [bc EXCEPT
                !.index = @ + 1,
                !.success = IF copy = "ok" THEN @ + 1 ELSE @,
                !.delivered = IF copy = "ok" THEN @ + 1 ELSE @,
                !.failed = IF raised \in {"forbidden", "error"} THEN @ + 1 ELSE @,
                !.pc = IF raised = "retry_after" THEN "sleep" ELSE "loop",
                !.retry_of = IF raised = "retry_after" THEN bc.index ELSE 0,
                !.wake = IF raised = "retry_after" THEN now + retry_after ELSE 0]
    /\ UNCHANGED <<referrals, warns_history, fsm, now, tasks, transport,
                   admin_kb, broadcast_messages>>

\* asyncio.sleep(e.retry_after) returns
broadcast_wake ==
    /\ bc.pc = "sleep"
    /\ now >= bc.wake
    /\ bc' = [bc EXCEPT !.pc = "loop", !.wake = 0, !.retry_of = 0]
    /\ UNCHANGED <<dbvars, fsm, now, tasks, transport, admin_kb, broadcast_messages>>

\* a confirm_broadcast that saves the statistics from inside the loop
broadcast_finish_in_loop ==
    /\ bc.pc = "loop"
    /\ broadcast_messages' = Append(broadcast_messages,
            [admin_id |-> bc.admin, sent_count |-> bc.success,
             failed_count |-> bc.failed])
    /\ fsm' = [fsm EXCEPT ![bc.admin] = "none"]
    /\ bc' = [bc EXCEPT !.pc = "done"]
    /\ UNCHANGED <<dbvars, now, tasks, transport, admin_kb>>

\* confirm_broadcast after the loop: save_broadcast_stats, state.clear()
broadcast_finish ==
    /\ bc.pc = "loop"
    /\ bc.index > Len(bc.user_ids)
    /\ broadcast_messages' = Append(broadcast_messages,
            [admin_id |-> bc.admin, sent_count |-> bc.success,
             failed_count |-> bc.failed])
    /\ fsm' = [fsm EXCEPT ![bc.admin] = "none"]
    /\ bc' = [bc EXCEPT !.pc = "done"]
    /\ UNCHANGED <<dbvars, now, tasks, transport, admin_kb>>

\* ------------------------------------------------- the Supabase mirror
\* the store methods that call the mirror after their commit
StoreOps == {"register", "add_warn", "ban", "unban", "open_ticket",
             "close_ticket", "mark_inactive", "save_broadcast_stats"}
MirrorOutcomes == {"ok", "raises"}

\* a mirror call outside try/except: its exception leaves the method
MirrorUnguarded(mirror) == IF mirror = "raises" THEN "raised" ELSE "returned"

\* try: supabase.table(...)...execute() except Exception: logger.error(...)
\* how the method ends after a mirror call with the given outcome
MirrorGuarded(mirror) == "returned"

\* the local statements of a store method op on user u, which are committed
\* before the mirror is called: the three tables afterwards and the value
\* the method returns (add_warn: the count it read)
StoreLocal(op, u, aid, tid, t) ==
    [ users |->
        CASE op = "register" -> register(users, u, NULL, aid)
          [] op = "add_warn" ->
                add_warn_tx(users, warns_history, u, users[u].warns, TRUE).users
          [] op = "ban" -> update_user_ban(users, u, TRUE, BanUntil(t, 1),
                                           DEFAULT_BAN_REASON)
          [] op = "unban" -> update_user_ban(users, u, FALSE, NULL, NoReason)
          [] op = "open_ticket" -> set_topic(users, u, tid)
          [] op = "close_ticket" -> close_ticket(users, u)
          [] op = "mark_inactive" -> mark_inactive(users, u)
          [] OTHER -> users,
      warns_history |->
        IF op = "add_warn"
        THEN add_warn_tx(users, warns_history, u, users[u].warns, TRUE).warns_history
        ELSE warns_history,
      broadcast_messages |->
        IF op = "save_broadcast_stats"
        THEN Append(broadcast_messages,
                [admin_id |-> u, sent_count |-> 0, failed_count |-> 0])
        ELSE broadcast_messages,
      w_count |->
        IF op = "add_warn"
        THEN add_warn_tx(users, warns_history, u, users[u].warns, TRUE).users[u].warns
        ELSE 0 ]

\* a store method as its caller sees it: the tables, how the method ended
\* and the value it returned (none when it raised)
StoreResult(op, u, aid, tid, t, mirror) ==
    LET local == StoreLocal(op, u, aid, tid, t)
        ended == MirrorGuarded(mirror) IN
    [ users |-> local.users,
      warns_history |-> local.warns_history,
      broadcast_messages |-> local.broadcast_messages,
      reply |-> ended,
      w_count |-> IF ended = "returned" THEN local.w_count ELSE 0 ]

\* the statements of op can run without an error of the local store
StoreCallable(op, u, aid, tid) ==
    CASE op = "register" -> users[u].exists \/ ~AnonTaken(users, aid)
      [] op = "add_warn" -> users[u].exists /\ users[u].warns < MaxWarns
      [] op = "open_ticket" -> users[u].exists /\ ~TopicTaken(users, u, tid)
      [] op = "save_broadcast_stats" -> Len(broadcast_messages) < MaxRuns
      [] OTHER -> users[u].exists

\* a handler calls store method op for user u; the mirror answers or raises
store_call(op, u, aid, tid, mirror) ==
    LET r == StoreResult(op, u, aid, tid, now, mirror) IN
    /\ Len(tasks) < MaxTasks
    /\ StoreCallable(op, u, aid, tid)
    /\ users' = r.users
    /\ warns_history' = r.warns_history
    /\ broadcast_messages' = r.broadcast_messages
    /\ tasks' = Append(tasks,
            [NewTask EXCEPT !.pc = "store_done", !.kind = op, !.uid = u,
                            !.copy = mirror, !.reply = r.reply,
                            !.w_count = r.w_count])
    /\ UNCHANGED <<referrals, fsm, now, transport, bc, admin_kb>>

\* the caller goes on after the store method
store_return(s) ==
    LET t == tasks[s] IN
    /\ s \in DOMAIN tasks
    /\ t.pc = "store_done"
    /\ tasks' = Finished(tasks, s)
    /\ UNCHANGED <<dbvars, fsm, now, transport, bcvars>>

\* ---------------------------------------------------------- specification
UserEvent ==
    \/ \E u \in Uids, kind \in MessageKinds, ref \in {NULL} \cup Uids :
            PrivateMessage(u, kind, ref)
    \/ \E u \in Uids : CategoryCallback(u)

Guard == \E s \in Slots : GuardDecide(s)

GuardReject == \E s \in Slots : guard_reject_notice(s)

GuardRaise == \E s \in Slots : guard_register_raised(s)

Menu == \E s \in Slots : cmd_start(s) \/ process_cat_selection(s) \/ process_rev_1(s)

Cancel ==
    \E s \in Slots :
        process_cancel(s) \/ process_cancel_notice(s) \/ process_cancel_close(s)

OpenTicket ==
    \E s \in Slots :
        \/ init_ticket_notice(s) \/ init_ticket_close(s) \/ init_ticket_create(s)
        \/ init_ticket_write(s) \/ init_ticket_card(s)
        \/ process_cat_callback_failed(s)

Relay ==
    \/ \E s \in Slots : gateway_u2a(s) \/ gateway_u2a_copy(s)
    \/ \E thread \in ThreadIds, copy \in {"ok", "forbidden", "error"} :
            gateway_a2u(thread, copy)

Moderation ==
    \/ \E actor \in Uids, thread \in ThreadIds, has_args \in BOOLEAN, sends \in 0..3 :
            adm_warn(actor, thread, has_args, sends)
    \/ \E actor \in Uids, thread \in ThreadIds, time_str \in BanTokens,
          reason \in {NoReason} \cup GivenReasons :
            adm_ban(actor, thread, time_str, reason)
    \/ \E actor \in Uids, thread \in ThreadIds : adm_unban(actor, thread)

WarnSteps ==
    \/ \E actor \in Uids, thread \in ThreadIds : WarnCommand(actor, thread)
    \/ \E s \in Slots : adm_warn_tx(s)
    \/ \E s \in Slots, sends \in 0..3 : adm_warn_notify(s, sends)

Broadcast ==
    \/ \E actor \in Uids : start_broadcast(actor)
    \/ \E s \in Slots : process_broadcast_content(s)
    \/ \E u \in Uids : cancel_broadcast_callback(u)
    \/ \E u \in Uids : confirm_broadcast(u)
    \/ \E copy \in SendOutcomes, progress \in SendOutcomes, r \in 0..MaxRetryAfter :
            broadcast_step(copy, progress, r)
    \/ broadcast_wake
    \/ broadcast_finish

RelaySteps ==
    \/ \E s \in Slots : gateway_u2a(s) \/ gateway_u2a_send(s) \/ gateway_u2a_react(s)
    \/ \E thread \in ThreadIds : StaffMessage(thread)
    \/ \E s \in Slots, copy \in {"ok", "forbidden", "error"} : gateway_a2u_send(s, copy)
    \/ \E s \in Slots : gateway_a2u_react(s)

CommandSteps ==
    \E s \in Slots :
        \/ adm_lookup(s) \/ adm_answer(s)
        \/ adm_ban_write(s) \/ adm_unban_write(s) \/ adm_notify(s)
        \/ adm_warn_tx(s)
        \/ \E sends \in 0..3 : adm_warn_notify(s, sends)

StaffPosts ==
    \/ \E thread \in ThreadIds : StaffPost(thread)
    \/ \E s \in Slots : gateway_a2u_lookup(s)

StaffCommands ==
    \E actor \in Uids, thread \in ThreadIds, cmd \in ModCommands,
       has_args \in BOOLEAN, time_str \in BanTokens :
        StaffCommand(actor, thread, cmd, has_args, time_str)

Next ==
    \/ Tick
    \/ UserEvent
    \/ Guard
    \/ GuardReject
    \/ GuardRaise
    \/ Menu
    \/ Cancel
    \/ OpenTicket
    \/ Relay
    \/ Moderation
    \/ WarnSteps
    \/ RelaySteps
    \/ StaffCommands
    \/ CommandSteps
    \/ StaffPosts
    \/ Broadcast

Spec == Init /\ [][Next]_vars

\* ------------------------------------------ specifications of the parts
\* Each part starts in a state the bot reaches from Init and takes the
\* steps of Next that the part is about.

\* both users have pressed the create button: the category keyboard is on
\* their screens
InitTicket ==
    /\ users = [u \in Uids |-> NewRow(u, NULL)]
    /\ referrals = {}
    /\ warns_history = [u \in Uids |-> 0]
    /\ fsm = [u \in Uids |-> "choosing_category"]
    /\ now = 1
    /\ tasks = <<>>
    /\ next_topic = 1
    /\ topic_owner = [t \in ThreadIds |-> 0]
    /\ notice_tried = {}
    /\ notice_sent = {}
    /\ kb_shown = [u \in Uids |-> TRUE]
    /\ admin_kb = FALSE
    /\ bc = IdleRun
    /\ broadcast_messages = <<>>

NextTicket ==
    \/ \E u \in Uids : CategoryCallback(u)
    \/ OpenTicket

SpecTicket == InitTicket /\ [][NextTicket]_vars

\* user MaxUsers has opened a ticket and writes in it; the owner has
\* written to the bot
InitDialog ==
    /\ users = [u \in Uids |->
                  IF u = MaxUsers THEN set_topic([v \in Uids |-> NewRow(v, NULL)], u, 1)[u]
                  ELSE NewRow(u, NULL)]
    /\ referrals = {}
    /\ warns_history = [u \in Uids |-> 0]
    /\ fsm = [u \in Uids |-> IF u = MaxUsers THEN "writing_issue" ELSE "none"]
    /\ now = 1
    /\ tasks = <<>>
    /\ next_topic = 2
    /\ topic_owner = [t \in ThreadIds |-> IF t = 1 THEN MaxUsers ELSE 0]
    /\ notice_tried = {}
    /\ notice_sent = {}
    /\ kb_shown = [u \in Uids |-> u = MaxUsers]
    /\ admin_kb = FALSE
    /\ bc = IdleRun
    /\ broadcast_messages = <<>>

DialogKinds == {"start", "cancel", "review", "text"}

NextDialog ==
    \/ \E u \in Uids, kind \in DialogKinds : PrivateMessage(u, kind, NULL)
    \/ Guard
    \/ \E s \in Slots : cmd_start(s) \/ process_rev_1(s)
    \/ Cancel
    \/ Relay

SpecDialog == InitDialog /\ [][NextDialog]_vars

GuardKinds == {"create", "text"}

NextGuard ==
    \/ Tick
    \/ \E kind \in GuardKinds : PrivateMessage(MaxUsers, kind, NULL)
    \/ CategoryCallback(MaxUsers)
    \/ Guard
    \/ GuardReject
    \/ \E s \in Slots : process_cat_selection(s)
    \/ \E s \in Slots : gateway_u2a(s) \/ gateway_u2a_copy(s)
    \/ OpenTicket
    \/ \E thread \in ThreadIds, time_str \in BanTokens, reason \in {NoReason} \cup GivenReasons :
            adm_ban(OWNER_ID, thread, time_str, reason)
    \/ \E thread \in ThreadIds : adm_unban(OWNER_ID, thread)

SpecGuard == InitDialog /\ [][NextGuard]_vars

NextModeration ==
    \/ Tick
    \/ Moderation
    \/ \E thread \in ThreadIds, copy \in {"ok", "forbidden", "error"} :
            gateway_a2u(thread, copy)

SpecModeration == InitDialog /\ [][NextModeration]_vars

\* /start messages, with and without a referrer id, to the empty store
NextStart ==
    \/ \E u \in Uids, ref \in {NULL} \cup Uids : PrivateMessage(u, "start", ref)
    \/ Guard
    \/ GuardRaise
    \/ \E s \in Slots : cmd_start(s)

SpecStart == Init /\ [][NextStart]_vars

\* a store of PROGRESS_EVERY users, all of them active; the owner has
\* confirmed a broadcast and the run has taken its snapshot
InitProgress ==
    /\ users = [u \in 1..PROGRESS_EVERY |-> NewRow(u, NULL)]
    /\ referrals = {}
    /\ warns_history = [u \in 1..PROGRESS_EVERY |-> 0]
    /\ fsm = [u \in 1..PROGRESS_EVERY |->
                IF u = OWNER_ID THEN "broadcast_confirm" ELSE "none"]
    /\ now = 1
    /\ tasks = <<>>
    /\ next_topic = 1
    /\ topic_owner = [t \in ThreadIds |-> 0]
    /\ notice_tried = {}
    /\ notice_sent = {}
    /\ kb_shown = [u \in 1..PROGRESS_EVERY |-> FALSE]
    /\ admin_kb = TRUE
    /\ bc = [IdleRun EXCEPT !.pc = "loop", !.admin = OWNER_ID, !.index = 1,
                            !.user_ids = [i \in 1..PROGRESS_EVERY |-> i]]
    /\ broadcast_messages = <<>>

\* the run over that snapshot; a copy is delivered or fails with an error
NextProgress ==
    \/ Tick
    \/ \E copy \in {"ok", "error"}, progress \in SendOutcomes, r \in 0..MaxRetryAfter :
            broadcast_step(copy, progress, r)
    \/ broadcast_wake
    \/ broadcast_finish

SpecProgress == InitProgress /\ [][NextProgress]_vars

\* the owner has sent /start, opened a ticket, pressed the broadcast button
\* and sent the message to broadcast; nobody else has written to the bot
InitSnapshot ==
    /\ users = [u \in Uids |->
                  IF u = OWNER_ID THEN set_topic([v \in Uids |-> NewRow(v, NULL)], u, 1)[u]
                  ELSE NoRow]
    /\ referrals = {}
    /\ warns_history = [u \in Uids |-> 0]
    /\ fsm = [u \in Uids |-> IF u = OWNER_ID THEN "broadcast_confirm" ELSE "none"]
    /\ now = 1
    /\ tasks = <<>>
    /\ next_topic = 2
    /\ topic_owner = [t \in ThreadIds |-> IF t = 1 THEN OWNER_ID ELSE 0]
    /\ notice_tried = {}
    /\ notice_sent = {}
    /\ kb_shown = [u \in Uids |-> u = OWNER_ID]
    /\ admin_kb = TRUE
    /\ bc = IdleRun
    /\ broadcast_messages = <<>>

\* a broadcast run with registrations, bans, unbans and ban lifts around it
NextSnapshot ==
    \/ Tick
    \/ \E u \in Uids : Len(tasks) < 1 /\ PrivateMessage(u, "start", NULL)
    \/ Guard
    \/ GuardReject
    \/ GuardRaise
    \/ \E s \in Slots : cmd_start(s)
    \/ \E thread \in ThreadIds, time_str \in BanTokens :
            adm_ban(OWNER_ID, thread, time_str, NoReason)
    \/ \E thread \in ThreadIds : adm_unban(OWNER_ID, thread)
    \/ confirm_broadcast(OWNER_ID)
    \/ \E copy \in SendOutcomes, r \in 0..MaxRetryAfter : broadcast_step(copy, "ok", r)
    \/ broadcast_wake
    \/ broadcast_finish

SpecSnapshot == InitSnapshot /\ [][NextSnapshot]_vars

\* the two relays of an open ticket with their delivery markers, the
\* user's cancel button and the owner's ban and unban beside them
RelayKinds == {"text", "cancel"}

NextRelay ==
    \/ \E kind \in RelayKinds : PrivateMessage(MaxUsers, kind, NULL)
    \/ Guard
    \/ GuardReject
    \/ Cancel
    \/ RelaySteps
    \/ \E thread \in ThreadIds : adm_ban(OWNER_ID, thread, PermToken, NoReason)
    \/ \E thread \in ThreadIds : adm_unban(OWNER_ID, thread)

SpecRelay == InitDialog /\ [][NextRelay]_vars

\* staff messages in every thread of the group while the user of the open
\* ticket cancels it or opens a new one over it
NextStaff ==
    \/ PrivateMessage(MaxUsers, "cancel", NULL)
    \/ Guard
    \/ Cancel
    \/ CategoryCallback(MaxUsers)
    \/ OpenTicket
    \/ StaffPosts
    \/ \E s \in Slots, copy \in {"ok", "forbidden", "error"} : gateway_a2u_send(s, copy)
    \/ \E s \in Slots : gateway_a2u_react(s)

SpecStaff == InitDialog /\ [][NextStaff]_vars

\* the three moderation commands, one at a time, from the owner and from
\* others, in the user's thread and in a thread nobody is mapped to
NextCommand ==
    \/ Tick
    \/ \E actor \in Uids, thread \in ThreadIds, cmd \in ModCommands,
          has_args \in BOOLEAN, time_str \in BanTokens :
            /\ Len(tasks) < 1
            /\ (cmd = "ban" /\ has_args) \/ time_str = PermToken
            /\ StaffCommand(actor, thread, cmd, has_args,
                            IF cmd = "ban" /\ has_args THEN time_str ELSE <<>>)
    \/ CommandSteps

SpecCommand == InitDialog /\ [][NextCommand]_vars

\* the duration tokens parse_time is given: every string of one to
\* MaxTokenLen characters of TokenChars, the two examples "1h30m" and "2d",
\* the word "soon" and the permanent token
MaxTokenLen == 3
TokenChars == {"0", "1", "h", "m", "x"}

ParseInputs ==
    UNION { [1..n -> TokenChars] : n \in 1..MaxTokenLen }
        \cup { <<"1", "h", "3", "0", "m">>, <<"2", "d">>,
                <<"s", "o", "o", "n">>, PermToken }

\* /ban commands of the owner in the user's thread, one at a time, with
\* every token of ParseInputs
NextParse ==
    \/ \E time_str \in ParseInputs :
            /\ Len(tasks) < 1
            /\ StaffCommand(OWNER_ID, 1, "ban", TRUE, time_str)
    \/ \E s \in Slots : adm_lookup(s) \/ adm_ban_write(s) \/ adm_notify(s)

SpecParse == InitDialog /\ [][NextParse]_vars

\* the seconds a timed ban has left when the clock is at 1: around one
\* minute, one hour, an hour and a minute, two hours and one day
RemainingInputs ==
    (1..2) \cup (58..62) \cup (3598..3602) \cup (3658..3662)
        \cup (7198..7202) \cup (86398..86402)

\* InitDialog after the owner has banned user MaxUsers for a time
InitRemaining ==
    /\ \E r \in RemainingInputs :
          users = [u \in Uids |->
                     IF u = MaxUsers
                     THEN update_user_ban(
                            set_topic([v \in Uids |-> NewRow(v, NULL)], u, 1),
                            u, TRUE, 1 + r, DEFAULT_BAN_REASON)[u]
                     ELSE NewRow(u, NULL)]
    /\ referrals = {}
    /\ warns_history = [u \in Uids |-> 0]
    /\ fsm = [u \in Uids |-> IF u = MaxUsers THEN "writing_issue" ELSE "none"]
    /\ now = 1
    /\ tasks = <<>>
    /\ next_topic = 2
    /\ topic_owner = [t \in ThreadIds |-> IF t = 1 THEN MaxUsers ELSE 0]
    /\ notice_tried = {}
    /\ notice_sent = {}
    /\ kb_shown = [u \in Uids |-> u = MaxUsers]
    /\ admin_kb = FALSE
    /\ bc = IdleRun
    /\ broadcast_messages = <<>>

\* the banned user writes while the clock runs
NextRemaining ==
    \/ Tick
    \/ PrivateMessage(MaxUsers, "text", NULL)
    \/ Guard
    \/ GuardReject
    \/ \E s \in Slots : gateway_u2a(s) \/ gateway_u2a_copy(s)

SpecRemaining == InitRemaining /\ [][NextRemaining]_vars

\* the store methods called one at a time on the empty store, each with a
\* mirror that answers and with a mirror that raises; both users register,
\* the other methods are called for user MaxUsers
NextMirror ==
    \/ \E op \in StoreOps, u \in Uids, aid \in AnonIds, tid \in ThreadIds,
          mirror \in MirrorOutcomes :
            /\ Len(tasks) < 1
            /\ op = "register" \/ aid = 1
            /\ op = "open_ticket" \/ tid = 1
            /\ op \in {"register", "save_broadcast_stats"} \/ u = MaxUsers
            /\ store_call(op, u, aid, tid, mirror)
    \/ \E s \in Slots : store_return(s)

SpecMirror == Init /\ [][NextMirror]_vars

\* warn commands whose handlers interleave, with unban and the clock
NextWarn ==
    \/ Tick
    \/ WarnSteps
    \/ \E thread \in ThreadIds : adm_unban(OWNER_ID, thread)

SpecWarn == InitDialog /\ [][NextWarn]_vars

\* InitDialog after the owner has sent /start, pressed the broadcast button
\* and sent the message to broadcast
InitFrame ==
    /\ users = [u \in Uids |->
                  IF u = MaxUsers THEN set_topic([v \in Uids |-> NewRow(v, NULL)], u, 1)[u]
                  ELSE NewRow(u, NULL)]
    /\ referrals = {}
    /\ warns_history = [u \in Uids |-> 0]
    /\ fsm = [u \in Uids |-> IF u = MaxUsers THEN "writing_issue"
                             ELSE IF u = OWNER_ID THEN "broadcast_confirm"
                             ELSE "none"]
    /\ now = 1
    /\ tasks = <<>>
    /\ next_topic = 2
    /\ topic_owner = [t \in ThreadIds |-> IF t = 1 THEN MaxUsers ELSE 0]
    /\ notice_tried = {}
    /\ notice_sent = {}
    /\ kb_shown = [u \in Uids |-> u = MaxUsers]
    /\ admin_kb = TRUE
    /\ bc = IdleRun
    /\ broadcast_messages = <<>>

\* the ticket of InitFrame is as it was: no user-side handler has run
TicketUntouched ==
    /\ tasks = <<>>
    /\ users[MaxUsers].topic_id = 1
    /\ users[MaxUsers].msg_count = 0
    /\ fsm[MaxUsers] = "writing_issue"
    /\ next_topic = 2
    /\ notice_tried = {}

FrameKinds == {"create", "cancel", "text"}

\* every kind of handler.  Warns, bans, unbans and the clock mix with all of
\* them; a behaviour has either user-side handlers, one in flight at a time,
\* or a broadcast run
NextFrame ==
    \/ Tick
    \/ \E kind \in FrameKinds :
            bc.pc = "idle" /\ Len(tasks) < 1 /\ PrivateMessage(MaxUsers, kind, NULL)
    \/ bc.pc = "idle" /\ Len(tasks) < 1 /\ CategoryCallback(MaxUsers)
    \/ Guard
    \/ GuardReject
    \/ \E s \in Slots : process_cat_selection(s)
    \/ Cancel
    \/ OpenTicket
    \/ Relay
    \/ \E thread \in ThreadIds, sends \in 0..3 : adm_warn(OWNER_ID, thread, TRUE, sends)
    \/ \E thread \in ThreadIds, time_str \in BanTokens :
            adm_ban(OWNER_ID, thread, time_str, NoReason)
    \/ \E thread \in ThreadIds : adm_unban(OWNER_ID, thread)
    \/ TicketUntouched /\ confirm_broadcast(OWNER_ID)
    \/ \E copy \in SendOutcomes, r \in 0..MaxRetryAfter : broadcast_step(copy, "ok", r)
    \/ broadcast_wake
    \/ broadcast_finish

SpecFrame == InitFrame /\ [][NextFrame]_vars

\* both users have written to the bot; the owner has sent /start and holds
\* the admin keyboard
InitBroadcast ==
    /\ users = [u \in Uids |-> NewRow(u, NULL)]
    /\ referrals = {}
    /\ warns_history = [u \in Uids |-> 0]
    /\ fsm = [u \in Uids |-> "none"]
    /\ now = 1
    /\ tasks = <<>>
    /\ next_topic = 1
    /\ topic_owner = [t \in ThreadIds |-> 0]
    /\ notice_tried = {}
    /\ notice_sent = {}
    /\ kb_shown = [u \in Uids |-> FALSE]
    /\ admin_kb = TRUE
    /\ bc = IdleRun
    /\ broadcast_messages = <<>>

NextBroadcast ==
    \/ Tick
    \/ PrivateMessage(OWNER_ID, "text", NULL)
    \/ Guard
    \/ Broadcast

SpecBroadcast == InitBroadcast /\ [][NextBroadcast]_vars

\* the steps of a broadcast run that has started
BroadcastRun ==
    \/ \E copy \in SendOutcomes, progress \in SendOutcomes, r \in 0..MaxRetryAfter :
            broadcast_step(copy, progress, r)
    \/ broadcast_wake
    \/ broadcast_finish

\* SpecBroadcast with the scheduling of asyncio: a call that is awaited
\* returns or raises, the coroutine is then resumed, and the clock that ends
\* asyncio.sleep advances
SpecBroadcastFair ==
    /\ InitBroadcast
    /\ [][NextBroadcast]_vars
    /\ WF_vars(Tick)
    /\ WF_vars(BroadcastRun)

\* ------------------------------------------------------------ properties

C2_BannedNeverHandled ==
    \A s \in DOMAIN tasks : tasks[s].pc # "decide" => ~tasks[s].in_force

\* C3: a warn call that brings a user's count to WARN_LIMIT or more leaves
\* the user permanently banned when the call is over, whatever its sends do.
C3_ThresholdWarnBans ==
    [][\A u \in Uids :
          (users'[u].warns > users[u].warns /\ users'[u].warns >= WARN_LIMIT)
              => (users'[u].is_banned /\ users'[u].ban_until = NULL)]_vars

\* C4: a ban command whose duration token is the word "soon" (no duration,
\* not the permanent token) changes nothing in the users table.
C4_InvalidDurationRejected ==
    [][\A thread \in ThreadIds, reason \in {NoReason} \cup GivenReasons :
          adm_ban(OWNER_ID, thread, <<"s", "o", "o", "n">>, reason)
              => UNCHANGED users]_vars

\* C5: after the wait that a RateLimited send asks for, the broadcast
\* attempts the same recipient again.
C5_RetrySameRecipient ==
    [][(bc.pc = "sleep" /\ bc'.pc = "loop") => bc'.index = bc.retry_of]_vars

\* C6: when a broadcast run is over, success + failed is the size of the
\* snapshot and success is the number of deliveries.
C6_CountersPartition ==
    bc.pc = "done" =>
        /\ bc.success + bc.failed = Len(bc.user_ids)
        /\ bc.success = bc.delivered

\* C7: when init_ticket returns a thread id for a user that had thread T_old
\* open, a closure notice went into T_old, the user's thread id is the
\* returned id, which differs from T_old, and T_old no longer leads to the
\* user.
C7_Supersession ==
    [][\A s \in DOMAIN tasks :
          (tasks[s].pc = "cat_card" /\ tasks[s].topic # NULL /\ tasks' = Finished(tasks, s))
              => /\ tasks[s].topic \in notice_tried
                 /\ users'[tasks[s].uid].topic_id = tasks[s].tid
                 /\ tasks[s].tid # tasks[s].topic
                 /\ get_user_tid(users', tasks[s].topic) # tasks[s].uid]_vars

\* C8: whenever init_ticket has returned None, the user has no thread id and
\* the conversation state is not writing_issue.
C8_FailureLeavesNoMapping ==
    \A s \in DOMAIN tasks :
        tasks[s].pc = "cat_failed"
            => /\ users[tasks[s].uid].topic_id = NULL
               /\ fsm[tasks[s].uid] # "writing_issue"

\* C9: when process_cancel is over, the user has no thread id, whatever the
\* conversation state was.
C9_CancelClearsMapping ==
    [][\A s \in DOMAIN tasks :
          (tasks[s].pc \in {"cancel", "cancel_close"} /\ tasks' = Finished(tasks, s))
              => users'[tasks[s].uid].topic_id = NULL]_vars

\* C10: when the Guard decides on an event whose row shows is_banned with
\* ban_until before now, the same step writes is_banned = false with
\* ban_until and ban_reason absent and hands the event to its handler.
C10_ElapsedBanLifted ==
    [][\A s \in DOMAIN tasks :
          (/\ tasks[s].pc = "decide"
           /\ tasks[s].banned /\ tasks[s].until # NULL /\ tasks[s].until < now
           /\ \/ tasks' = Finished(tasks, s)
              \/ Len(tasks') = Len(tasks) /\ tasks'[s] # tasks[s])
              => /\ Len(tasks') = Len(tasks)
                 /\ tasks'[s].pc = tasks[s].kind
                 /\ tasks'[s].uid = tasks[s].uid
                 /\ ~users'[tasks[s].uid].is_banned
                 /\ users'[tasks[s].uid].ban_until = NULL
                 /\ users'[tasks[s].uid].ban_reason = NoReason]_vars

\* C10 case: a handler is running for an event whose elapsed ban the Guard
\* has lifted
C10_Witness ==
    \E s \in DOMAIN tasks :
        /\ tasks[s].lifted
        /\ tasks[s].pc = tasks[s].kind
        /\ ~users[tasks[s].uid].is_banned

\* C11: a Guard evaluation of an event whose row shows a ban in force leaves
\* the users table as it is and only sends the ban notice, after which the
\* event is dropped without its handler; the one write a Guard evaluation
\* makes is the lift of an elapsed timed ban, never of a permanent one.
C11_RejectWritesNothing ==
    [][\A s \in DOMAIN tasks :
          /\ (/\ tasks[s].pc = "decide"
              /\ \/ tasks' = Finished(tasks, s)
                 \/ Len(tasks') = Len(tasks) /\ tasks'[s] # tasks[s])
                => /\ BanInForce(tasks[s].banned, tasks[s].until, now)
                        => /\ Len(tasks') = Len(tasks)
                           /\ tasks'[s].pc = "rejected"
                           /\ users' = users
                   /\ users' # users
                        => /\ tasks[s].banned
                           /\ tasks[s].until # NULL
                           /\ tasks[s].until < now
                           /\ users' = [users EXCEPT
                                  ![tasks[s].uid].is_banned = FALSE,
                                  ![tasks[s].uid].ban_until = NULL,
                                  ![tasks[s].uid].ban_reason = NoReason]
          /\ tasks[s].pc = "rejected"
                => /\ Len(tasks') = Len(tasks) => tasks'[s] = tasks[s]
                   /\ tasks' = Finished(tasks, s) => users' = users]_vars

\* C11 case: the Guard has rejected an event of a permanently banned user
\* after time has passed since the ban
C11_Witness ==
    \E s \in DOMAIN tasks :
        /\ tasks[s].pc = "rejected"
        /\ tasks[s].banned
        /\ tasks[s].until = NULL
        /\ now > 1
        /\ users[tasks[s].uid].is_banned

\* C12: a warn given to a banned user who already has WARN_LIMIT warns or
\* more raises the count and leaves is_banned, ban_until and ban_reason as
\* they are.
C12_FourthWarnNoRewrite ==
    [][\A u \in Uids :
          (/\ users[u].warns >= WARN_LIMIT
           /\ users[u].is_banned
           /\ users'[u].warns > users[u].warns)
              => /\ users'[u].warns = users[u].warns + 1
                 /\ users'[u].is_banned = users[u].is_banned
                 /\ users'[u].ban_until = users[u].ban_until
                 /\ users'[u].ban_reason = users[u].ban_reason]_vars

\* C13: in every state of the store a user's warns equals the number of the
\* user's warns_history rows, whether add_warn committed or failed.
C13_WarnsMatchHistory ==
    \A u \in Uids : users[u].exists => users[u].warns = warns_history[u]

\* C13 case: warns have been committed for a user and the count returned by
\* one of them is with its handler
C13_Witness ==
    \E s \in DOMAIN tasks :
        /\ tasks[s].pc = "warn_notify"
        /\ users[tasks[s].uid].warns >= 2
        /\ warns_history[tasks[s].uid] = users[tasks[s].uid].warns

\* C14: every add_warn that commits raises the user's warns by exactly one
\* and returns the raised value, which no other warn handler in flight for
\* that user holds, however the handlers interleave.
C14_NoLostWarn ==
    [][\A s \in DOMAIN tasks :
          (/\ tasks[s].pc = "warn_tx"
           /\ Len(tasks') = Len(tasks)
           /\ tasks'[s].pc = "warn_notify")
              => /\ users'[tasks[s].uid].warns = users[tasks[s].uid].warns + 1
                 /\ tasks'[s].w_count = users'[tasks[s].uid].warns
                 /\ \A r \in DOMAIN tasks' \ {s} :
                        (tasks'[r].pc = "warn_notify" /\ tasks'[r].uid = tasks[s].uid)
                            => tasks'[r].w_count # tasks'[s].w_count]_vars

\* C14 case: two warn handlers for one user are past add_warn at once
C14_Witness ==
    \E r, s \in DOMAIN tasks :
        /\ r # s
        /\ tasks[r].pc = "warn_notify" /\ tasks[s].pc = "warn_notify"
        /\ tasks[r].uid = tasks[s].uid
        /\ users[tasks[s].uid].warns >= 2

\* C15: a step that changes a user's warns raises it by exactly one and adds
\* the warns_history row of a warn; ban, unban, the Guard's lift, the ticket
\* handlers, the relays, registration and the broadcast leave warns alone.
C15_WarnsOnlyByWarn ==
    [][\A u \in Uids :
          users'[u].warns # users[u].warns
              => /\ users'[u].warns = users[u].warns + 1
                 /\ warns_history'[u] = warns_history[u] + 1
                 /\ tasks' = tasks]_vars

\* C15 case: a warned user was banned and the ban is gone again, the warns
\* still on the row
C15_Witness ==
    \E u \in Uids :
        /\ users[u].warns \in 1..(WARN_LIMIT - 1)
        /\ ~users[u].is_banned
        /\ \E s \in DOMAIN tasks : tasks[s].uid = u /\ tasks[s].lifted

\* C16: when cmd_start is over for the first contact of a user, a /start
\* with referrer id R, the user's row has referrer_id = R and the edge
\* (R, user) is in referrals.
C16_ReferrerStored ==
    [][\A s \in DOMAIN tasks :
          (/\ tasks[s].pc = "start"
           /\ tasks[s].is_new
           /\ tasks[s].ref # NULL
           /\ tasks' = Finished(tasks, s))
              => /\ users'[tasks[s].uid].referrer_id = tasks[s].ref
                 /\ <<tasks[s].ref, tasks[s].uid>> \in referrals']_vars

\* C17: an iteration of the broadcast loop whose copy is delivered and whose
\* edit of the progress notice fails counts the delivery, leaves failed and
\* every user's is_active as they are and goes on with the loop.
C17_ProgressFailureIgnored ==
    [][\A progress \in SendOutcomes \ {"ok"}, r \in 0..MaxRetryAfter :
          (/\ bc.pc = "loop"
           /\ bc.index % PROGRESS_EVERY = 0
           /\ broadcast_step("ok", progress, r))
              => /\ bc'.success = bc.success + 1
                 /\ bc'.failed = bc.failed
                 /\ \A u \in DOMAIN users : users'[u].is_active = users[u].is_active
                 /\ bc'.pc = "loop"]_vars

\* C18: an iteration of the broadcast loop whose send fails with Forbidden
\* sets is_active = false on that recipient's row and on nothing else, adds
\* one to failed, leaves success as it is and goes on with the next
\* recipient of the snapshot.
C18_ForbiddenMarksInactive ==
    [][(bc.pc = "loop" /\ broadcast_step("forbidden", "ok", 0))
          => /\ users' = [users EXCEPT ![bc.user_ids[bc.index]].is_active = FALSE]
             /\ bc'.failed = bc.failed + 1
             /\ bc'.success = bc.success
             /\ bc'.pc = "loop"
             /\ bc'.index = bc.index + 1
             /\ bc'.user_ids = bc.user_ids]_vars

\* C18 case: a recipient of the run has been marked inactive and counted as
\* failed, another user is still active and the run goes on
C18_Witness ==
    /\ bc.pc = "loop"
    /\ bc.failed = 1 /\ bc.success = 0
    /\ bc.index = 2 /\ Len(bc.user_ids) >= 2
    /\ ~users[bc.user_ids[1]].is_active
    /\ users[bc.user_ids[2]].is_active

\* C19: the list a run loops over is the list of the users that were active
\* and not banned when the run started; while the run is in progress the
\* list does not change, whatever registers or is banned or unbanned, and
\* the run is over only when the loop has gone through the whole list.
C19_SnapshotFixed ==
    [][/\ (bc.pc \in {"idle", "done"} /\ bc'.pc = "loop")
            => /\ {bc'.user_ids[i] : i \in DOMAIN bc'.user_ids}
                    = {v \in Uids : users[v].exists /\ users[v].is_active
                                                    /\ ~users[v].is_banned}
               /\ \A i, j \in DOMAIN bc'.user_ids :
                      bc'.user_ids[i] = bc'.user_ids[j] => i = j
       /\ bc.pc \in {"loop", "sleep"}
            => /\ bc'.user_ids = bc.user_ids
               /\ bc'.index \in {bc.index, bc.index + 1}
               /\ bc'.pc = "done" => bc.index = Len(bc.user_ids) + 1]_vars

\* C19 case: a run is over; a user that registered after it began is not in
\* its list and a user of the list was banned while it ran
C19_Witness ==
    /\ bc.pc = "done"
    /\ \E v \in Uids :
          /\ users[v].exists /\ users[v].is_active /\ ~users[v].is_banned
          /\ \A i \in DOMAIN bc.user_ids : bc.user_ids[i] # v
    /\ \E i \in DOMAIN bc.user_ids : users[bc.user_ids[i]].is_banned
    /\ bc.success = Len(bc.user_ids)

\* C20: broadcast_messages changes only by the one row a run appends when
\* its loop has gone through the whole snapshot, holding the run's admin and
\* its final success and failed counters; a run that ends appends its row.
C20_OneRecordPerRun ==
    [][/\ broadcast_messages' # broadcast_messages
            => /\ bc.pc = "loop"
               /\ bc.index = Len(bc.user_ids) + 1
               /\ bc'.pc = "done"
               /\ broadcast_messages' = Append(broadcast_messages,
                      [admin_id |-> bc.admin, sent_count |-> bc.success,
                       failed_count |-> bc.failed])
               /\ bc'.success = bc.success /\ bc'.failed = bc.failed
       /\ (bc.pc # "done" /\ bc'.pc = "done")
            => Len(broadcast_messages') = Len(broadcast_messages) + 1]_vars

\* C20 case: a run over two recipients is over and its row is stored
C20_Witness ==
    /\ bc.pc = "done"
    /\ Len(bc.user_ids) >= 2
    /\ Len(broadcast_messages) = 1
    /\ broadcast_messages[1].sent_count = bc.success
    /\ broadcast_messages[1].failed_count = bc.failed
    /\ bc.success + bc.failed >= 1

\* C21: msg_count changes only by one, on the step of gateway_u2a in which
\* the copy of a message of that user succeeded, and at that step the user
\* is in writing_issue and the thread the copy went into is the thread
\* mapped to the user.
C21_CountFollowsCopy ==
    [][\A u \in Uids :
          users'[u].msg_count # users[u].msg_count
            => /\ users'[u].msg_count = users[u].msg_count + 1
               /\ \E s \in DOMAIN tasks :
                     /\ tasks[s].pc = "u2a_copy" /\ tasks[s].uid = u
                     /\ tasks' = Finished(tasks, s)
                     /\ fsm[u] = "writing_issue"
                     /\ users[u].topic_id # NULL
                     /\ tasks[s].topic = users[u].topic_id]_vars

\* C22: every emoji a relay hands to the transport is in the allow-list,
\* thumbs_up after a copy that succeeded and thumbs_down after one that
\* failed, on the user's message as on the staff message; the step in which
\* the transport attaches or refuses the marker writes nothing but the
\* is_active update of the Forbidden clause.
C22_ReactionsAllowed ==
    [][/\ \A s \in DOMAIN tasks' :
            tasks'[s].pc \in {"u2a_react", "a2u_react"}
              => /\ tasks'[s].reaction \in supported_emojis
                 /\ tasks'[s].reaction =
                        IF tasks'[s].copy = "ok" THEN "thumbs_up" ELSE "thumbs_down"
       /\ \A s \in DOMAIN tasks :
            (tasks[s].pc \in {"u2a_react", "a2u_react"}
               /\ tasks' = Finished(tasks, s) /\ tasks[s].copy # "forbidden")
              => UNCHANGED <<dbvars, fsm>>]_vars

\* C23: when gateway_a2u returns after a copy to the user that failed, the
\* user's is_active is false if the error was Forbidden and is what it was
\* before for any other error; in both cases the emoji handed to the
\* transport for the staff message is thumbs_down, the handler ends without
\* raising, and every other column of every row is unchanged.
C23_A2UFailure ==
    [][\A s \in DOMAIN tasks :
          (tasks[s].pc = "a2u_react" /\ tasks[s].copy # "ok"
             /\ tasks' = Finished(tasks, s))
            => LET u == tasks[s].uid IN
               /\ tasks[s].reaction = "thumbs_down"
               /\ tasks[s].copy = "forbidden" => ~users'[u].is_active
               /\ tasks[s].copy # "forbidden"
                    => users'[u].is_active = users[u].is_active
               /\ \A v \in Uids :
                     [users'[v] EXCEPT !.is_active = users[v].is_active] = users[v]
               /\ UNCHANGED <<referrals, warns_history, fsm>>]_vars

\* C23 case: a relay to the user failed with Forbidden and the user is
\* inactive, still mapped to the thread; a later relay in the thread failed
\* with another error and is about to set its marker
C23_Witness ==
    /\ users[MaxUsers].topic_id # NULL
    /\ ~users[MaxUsers].is_active
    /\ \E s \in DOMAIN tasks :
          /\ tasks[s].pc = "a2u_react" /\ tasks[s].uid = MaxUsers
          /\ tasks[s].copy = "error" /\ tasks[s].reaction = "thumbs_down"

\* C24 as stated: every warn, ban or unban command that arrives in a
\* thread no user is mapped to is answered with "not found", and neither
\* its head nor its answer writes to the store.
C24_NotFoundAnswered ==
    [][\A s \in DOMAIN tasks :
          /\ (/\ tasks[s].pc = "adm"
              /\ \A v \in Uids :
                    ~(users[v].exists /\ users[v].topic_id = tasks[s].topic)
              /\ \/ tasks' = Finished(tasks, s)
                 \/ Len(tasks') = Len(tasks) /\ tasks'[s] # tasks[s])
                => /\ Len(tasks') = Len(tasks)
                   /\ tasks'[s].pc = "adm_answer"
                   /\ tasks'[s].reply = "not_found"
                   /\ UNCHANGED <<dbvars, fsm>>
          /\ (tasks[s].pc = "adm_answer" /\ tasks' = Finished(tasks, s))
                => UNCHANGED <<dbvars, fsm>>]_vars

\* C24 amended: a command of the owner that has its arguments (/warn with
\* duration and reason, /ban with a duration, /unban) and arrives in a
\* thread no user is mapped to is answered with "not found"; neither its
\* head nor its answer writes to the store, and the handler ends after the
\* answer, before any warn, ban write or notice.
C24_NotFoundAnsweredAmended ==
    [][\A s \in DOMAIN tasks :
          /\ (/\ tasks[s].pc = "adm"
              /\ tasks[s].actor = OWNER_ID
              /\ tasks[s].kind = "unban" \/ tasks[s].has_args
              /\ \A v \in Uids :
                    ~(users[v].exists /\ users[v].topic_id = tasks[s].topic)
              /\ \/ tasks' = Finished(tasks, s)
                 \/ Len(tasks') = Len(tasks) /\ tasks'[s] # tasks[s])
                => /\ Len(tasks') = Len(tasks)
                   /\ tasks'[s].pc = "adm_answer"
                   /\ tasks'[s].reply = "not_found"
                   /\ UNCHANGED <<dbvars, fsm>>
          /\ (tasks[s].pc = "adm_answer" /\ tasks' # tasks)
                => tasks' = Finished(tasks, s) /\ UNCHANGED <<dbvars, fsm>>]_vars

\* C24 case: a /ban of the owner in a thread nobody is mapped to is about
\* to be answered with "not found", after a warn in the user's thread
C24_Witness ==
    /\ \E s \in DOMAIN tasks :
          /\ tasks[s].pc = "adm_answer" /\ tasks[s].reply = "not_found"
          /\ tasks[s].kind = "ban" /\ tasks[s].actor = OWNER_ID
          /\ \A v \in Uids : users[v].topic_id # tasks[s].topic
    /\ users[MaxUsers].topic_id # NULL
    /\ users[MaxUsers].warns = 1

\* C25: a warn, ban or unban command of anyone but the owner ends in its
\* first step with no variable but the task list changed; every command
\* that is past its first step, and so every write, answer and notice of a
\* command, belongs to the owner, and no command is handled by the relay.
C25_NonOwnerIgnored ==
    [][/\ \A s \in DOMAIN tasks :
            (/\ tasks[s].pc = "adm" /\ tasks[s].actor # OWNER_ID
             /\ \/ tasks' = Finished(tasks, s)
                \/ Len(tasks') = Len(tasks) /\ tasks'[s] # tasks[s])
              => /\ tasks' = Finished(tasks, s)
                 /\ UNCHANGED <<dbvars, fsm, now, transport, bcvars>>
       /\ \A s \in DOMAIN tasks' :
            tasks'[s].kind \in ModCommands
              => /\ tasks'[s].pc # "adm" => tasks'[s].actor = OWNER_ID
                 /\ tasks'[s].pc \notin {"a2u_copy", "a2u_react"}]_vars

\* C25 case: the user, who holds one warn of the owner, sends /warn with
\* its arguments in the user's own thread
C25_Witness ==
    /\ users[MaxUsers].warns = 1
    /\ \E s \in DOMAIN tasks :
          /\ tasks[s].pc = "adm" /\ tasks[s].kind = "warn"
          /\ tasks[s].actor = MaxUsers /\ tasks[s].has_args
          /\ tasks[s].topic = users[MaxUsers].topic_id

\* C26: the write of a /ban with token "1s" at time now sets is_banned and
\* ban_until = now + 1, the write of a /ban with the permanent token sets
\* is_banned and no ban_until; the notices come after the write and their
\* step leaves the users table as it is, whether they are sent or raise.
C26_BanWrite ==
    [][\A s \in DOMAIN tasks :
          /\ (/\ tasks[s].pc = "ban_write"
              /\ Len(tasks') = Len(tasks) /\ tasks'[s] # tasks[s])
                => LET u == tasks[s].uid IN
                   /\ users'[u].is_banned
                   /\ tasks[s].time_str = <<"1", "s">>
                        => users'[u].ban_until = now + 1
                   /\ tasks[s].time_str = PermToken
                        => users'[u].ban_until = NULL
                   /\ tasks'[s].pc = "adm_notify"
          /\ (tasks[s].pc = "adm_notify" /\ tasks' # tasks)
                => tasks' = Finished(tasks, s) /\ UNCHANGED users]_vars

\* C26 case: a /ban 1s written at time 2 is about to send its notices
C26_Witness ==
    \E s \in DOMAIN tasks :
        /\ tasks[s].pc = "adm_notify" /\ tasks[s].kind = "ban"
        /\ tasks[s].time_str = <<"1", "s">>
        /\ now = 2
        /\ users[tasks[s].uid].is_banned
        /\ users[tasks[s].uid].ban_until = 3

\* C27: the FSM state of a private chat becomes writing_issue only from
\* choosing_category, and a forum topic is created only by a category
\* callback of a user whose state is choosing_category.
C27_TicketStateMachine ==
    [][/\ \A u \in Uids :
            (fsm'[u] = "writing_issue" /\ fsm[u] # "writing_issue")
              => fsm[u] = "choosing_category"
       /\ next_topic' # next_topic
            => \E s \in DOMAIN tasks :
                  /\ tasks[s].pc = "cat_create"
                  /\ fsm[tasks[s].uid] = "choosing_category"]_vars

\* C28: for the token of every /ban that is about to call parse_time: if
\* the token is a sequence of groups <digits><unit>, parse_time returns the
\* sum of digits x unit-seconds (d 86400, h 3600, m 60, s 1); if it is the
\* permanent token, parse_time returns None; and for any other token the
\* result is no duration and differs from the result for the permanent
\* token.
C28_ParseTime ==
    \A k \in DOMAIN tasks :
        tasks[k].pc = "ban_write" =>
            LET T == tasks[k].time_str
                Digits == {"0", "1", "2", "3", "4", "5", "6", "7", "8", "9"}
                Units == {"d", "h", "m", "s"}
                UnitSeconds(c) == CASE c = "d" -> 86400 [] c = "h" -> 3600
                                    [] c = "m" -> 60 [] c = "s" -> 1
                Grouped == /\ \A i \in 1..Len(T) : T[i] \in Digits \cup Units
                           /\ T[Len(T)] \in Units
                           /\ \A i \in 1..Len(T) :
                                 T[i] \in Units => i > 1 /\ T[i - 1] \in Digits
                RECURSIVE GroupSum(_, _)
                GroupSum(i, num) ==
                    IF i > Len(T) THEN 0
                    ELSE IF T[i] \in Digits
                         THEN GroupSum(i + 1, 10 * num + DigitValue[T[i]])
                         ELSE num * UnitSeconds(T[i]) + GroupSum(i + 1, 0)
            IN  /\ Grouped => parse_time(T) = GroupSum(1, 0)
                /\ T = PermToken => parse_time(T) = None
                /\ (~Grouped /\ T # PermToken)
                      => /\ parse_time(T) \notin Nat
                         /\ parse_time(T) # parse_time(PermToken)

\* C29: when the Guard rejects an event for a timed ban with r > 0 seconds
\* left, the figures of its notice are hours = floor(r / 3600) and
\* minutes = floor((r mod 3600) / 60), so that 0 <= minutes < 60 and
\* hours*3600 + minutes*60 <= r < hours*3600 + minutes*60 + 60, and with
\* r at most one hour the notice says no more than 1h 0m.
C29_RemainingRoundsDown ==
    [][\A k \in DOMAIN tasks :
          (/\ tasks[k].pc = "decide"
           /\ Len(tasks') = Len(tasks)
           /\ tasks'[k].pc = "rejected"
           /\ tasks[k].until # NULL
           /\ tasks[k].until - now > 0)
            => LET r == tasks[k].until - now
                   h == tasks'[k].hours
                   m == tasks'[k].minutes IN
               /\ h = r \div 3600
               /\ m = (r % 3600) \div 60
               /\ 0 <= m /\ m < 60
               /\ h * 3600 + m * 60 <= r
               /\ r < h * 3600 + m * 60 + 60
               /\ r <= 3600 => h * 60 + m <= 60]_vars

\* C29 case: an event was rejected with exactly one hour left and its
\* notice says 1h 0m
C29_Witness ==
    \E k \in DOMAIN tasks :
        /\ tasks[k].pc = "rejected"
        /\ tasks[k].until - now = 3600
        /\ tasks[k].hours = 1 /\ tasks[k].minutes = 0

\* C30: registration never fails, whatever anon_id is drawn; in every state
\* no two rows hold the same anon_id; and no step changes the anon_id of a
\* row that exists.
C30_AnonIdUnique ==
    [][/\ \A k \in DOMAIN tasks' : tasks'[k].pc # "register_raised"
       /\ \A u, v \in Uids :
            (u # v /\ users'[u].exists /\ users'[v].exists)
              => users'[u].anon_id # users'[v].anon_id
       /\ \A u \in Uids :
            users[u].exists => users'[u].anon_id = users[u].anon_id]_vars

C32_NoOrphanThread ==
    tasks = <<>> =>
        \A t \in ThreadIds :
            topic_owner[t] # 0 =>
                \/ users[topic_owner[t]].topic_id = t
                \/ t \in notice_tried

\* C33: a user who is not banned has neither ban_until nor ban_reason: the
\* unban command and the Guard's lift clear the three fields together, and
\* no operation leaves ban_until or ban_reason set without is_banned.
C33_BanFieldsTogether ==
    \A u \in Uids :
        (users[u].exists /\ ~users[u].is_banned)
            => /\ users[u].ban_until = NULL
               /\ users[u].ban_reason = NoReason

\* the Guard has lifted an elapsed ban and the row shows none of the three
C33_Witness ==
    \E s \in DOMAIN tasks :
        /\ tasks[s].lifted
        /\ ~users[tasks[s].uid].is_banned
        /\ users[tasks[s].uid].ban_until = NULL
        /\ users[tasks[s].uid].ban_reason = NoReason

\* C34: whenever no handler is in progress, a user's conversation state is
\* writing_issue exactly when the user's stored thread id is set; /start,
\* cancel, a failed or superseding init_ticket and the review flow keep it.
C34_StateMatchesThread ==
    tasks = <<>> =>
        \A u \in Uids :
            users[u].exists =>
                (fsm[u] = "writing_issue" <=> users[u].topic_id # NULL)

\* C35: every broadcast run terminates: the run makes no more send attempts
\* than the snapshot has recipients, and a run that has started reaches its
\* completion step, where the audit row is stored, also when every send is
\* answered with RetryAfter.
C35_BroadcastTerminates ==
    /\ [](bc.pc # "idle" => bc.index <= Len(bc.user_ids) + 1)
    /\ (bc.pc \in {"loop", "sleep"})
            ~> (bc.pc = "done" /\ Len(broadcast_messages) >= 1)

\* a run over two recipients in which every send raised RetryAfter is over
C35_Witness ==
    /\ bc.pc = "done"
    /\ Len(bc.user_ids) = 2
    /\ bc.success = 0 /\ bc.failed = 0
    /\ Len(broadcast_messages) = 1

\* C36: is_active never goes from false back to true: no step (a message
\* of the user, registration, a delivery, unban) reactivates a user, and a
\* user marked unreachable is in no snapshot read afterwards.
C36_NeverReactivated ==
    [][\A u \in Uids :
          (users[u].exists /\ ~users[u].is_active)
              => /\ users'[u].exists /\ ~users'[u].is_active
                 /\ u \notin get_all_active_users(users')
                 /\ (bc.pc \notin {"loop", "sleep"} /\ bc'.pc = "loop")
                        => \A i \in DOMAIN bc'.user_ids : bc'.user_ids[i] # u]_vars

\* a broadcast run has read its snapshot without a user who is not banned
\* and was marked unreachable
C36_Witness ==
    /\ bc.pc # "idle"
    /\ \E u \in Uids :
          /\ users[u].exists /\ ~users[u].is_active /\ ~users[u].is_banned
          /\ \A i \in DOMAIN bc.user_ids : bc.user_ids[i] # u

\* C37: the Guard clears a ban only when the ban_until of the ban that the
\* row holds at the Guard's write has elapsed, also when a ban or a warn on
\* the same user lands between the Guard's get_user and its write.
C37_GuardLiftsOwnBanOnly ==
    [][\A s \in DOMAIN tasks :
          (/\ tasks[s].pc = "decide"
           /\ Len(tasks') = Len(tasks)
           /\ tasks'[s].lifted
           /\ users[tasks[s].uid].is_banned
           /\ ~users'[tasks[s].uid].is_banned)
              => /\ users[tasks[s].uid].ban_until # NULL
                 /\ users[tasks[s].uid].ban_until < now]_vars

\* C38: a staff message posted in thread T goes on to be copied to user U
\* only if U's stored thread id is T when the handler looks the thread up,
\* and it is copied to that user; a message in a thread that no user is
\* mapped to (the mapping was cleared by cancel or by a new ticket) is
\* copied to nobody and changes no stored state.
C38_RelayFollowsMapping ==
    [][\A s \in DOMAIN tasks :
          /\ (/\ tasks[s].pc = "a2u"
              /\ \/ tasks' = Finished(tasks, s)
                 \/ Len(tasks') = Len(tasks) /\ tasks'[s] # tasks[s])
                => /\ UNCHANGED <<dbvars, fsm>>
                   /\ IF \E v \in Uids :
                            users[v].exists /\ users[v].topic_id = tasks[s].topic
                      THEN /\ Len(tasks') = Len(tasks)
                           /\ tasks'[s].pc = "a2u_copy"
                           /\ users[tasks'[s].uid].exists
                           /\ users[tasks'[s].uid].topic_id = tasks[s].topic
                      ELSE tasks' = Finished(tasks, s)
          /\ (/\ tasks[s].pc = "a2u_copy" /\ tasks[s].kind = "a2u"
              /\ Len(tasks') = Len(tasks) /\ tasks'[s] # tasks[s])
                => /\ tasks'[s].uid = tasks[s].uid
                   /\ tasks'[s].topic = tasks[s].topic]_vars

\* the user's first thread was closed by a new ticket and a staff message
\* posted in the new thread has been copied to the user
C38_Witness ==
    \E s \in DOMAIN tasks :
        /\ tasks[s].pc = "a2u_react" /\ tasks[s].copy = "ok"
        /\ tasks[s].topic = 2
        /\ users[tasks[s].uid].topic_id = 2
        /\ topic_owner[1] = tasks[s].uid
        /\ 1 \in notice_tried

\* C39: is_banned of a user goes from true to false only by the unban
\* command or by the Guard's decision on a private message of that user
\* taken when the ban_until of the user's ban is behind the clock; time
\* alone clears nothing, and a snapshot read while is_banned is set leaves
\* the user out, elapsed ban_until or not.
C39_LiftOnlyByUnbanOrGuard ==
    [][\A u \in Uids :
          /\ (users[u].is_banned /\ ~users'[u].is_banned)
                => \/ \E thread \in ThreadIds :
                        /\ get_user_tid(users, thread) = u
                        /\ adm_unban(OWNER_ID, thread)
                   \/ \E s \in DOMAIN tasks :
                        /\ tasks[s].pc = "decide" /\ tasks[s].uid = u
                        /\ GuardDecide(s)
                        /\ users[u].ban_until # NULL
                        /\ users[u].ban_until < now
          /\ (bc.pc \in {"idle", "done"} /\ bc'.pc = "loop" /\ users[u].is_banned)
                => \A i \in DOMAIN bc'.user_ids : bc'.user_ids[i] # u]_vars

====
